---- MODULE Spec2Model ----
(***************************************************************************)
(* Page-interaction layer of the Sauce Demo Playwright suite: the BasePage *)
(* primitives, the page objects built from them, and the browser driver    *)
(* (Playwright Page / Locator / expect) they talk to.                      *)
(*                                                                         *)
(* A page-object method is the sequence of driver operations it awaits,    *)
(* each carrying the chain of catch blocks that enclose it.  The driver is *)
(* an external collaborator: every operation polls the browser, which may  *)
(* re-render while it is polled, and ends in success or in a driver error. *)
(*                                                                         *)
(* Strings that the code inspects character by character (URLs, URL        *)
(* substrings) are sequences of one-character strings; item names are      *)
(* sequences of words.                                                     *)
(***************************************************************************)
EXTENDS Integers, Sequences, FiniteSets, TLC

VARIABLES
    visible,    \* browser: selectors that currently resolve to a visible element
    text,       \* browser: text content of the element a selector resolves to
    field,      \* browser: content of the form fields
    url,        \* browser: current URL (path), a sequence of characters
    dom,        \* browser: texts of all elements matching a list selector, DOM order
    call,       \* the page-object method call in progress or last made
    pc,         \* position in the call's driver operations; 0 when no call runs
    trace,      \* driver operations issued by the current call, in issue order
    result,     \* outcome of the current call
    ncalls,     \* number of calls the test has made on this page
    storage,    \* browser: what the site keeps across screens (session user, cart)
    before,     \* the browser as it was when the current call was made
    chunk,      \* utils/helpers.ts: a chunkArray call (arguments, i, result)
    debounced,  \* utils/helpers.ts: a function returned by debounce, and its timer
    poll        \* one expectation polling against the clock

\* the helper functions, which no page object calls, and the timed expectation
helpers == << chunk, debounced, poll >>

vars ==
    << visible, text, field, url, dom, call, pc, trace, result, ncalls, storage,
       before, chunk, debounced, poll >>

-----------------------------------------------------------------------------
(* Bounds *)

MaxCalls == 2       \* page-object calls per test
MaxFairCalls == 1   \* page-object calls per test where termination is checked

-----------------------------------------------------------------------------
(* Values of the program *)

\* timeout?: number -- the optional parameter when the caller passes nothing
Undefined == -1

\* the extended timeout CartPage passes explicitly
ExtendedTimeout == 10000

Timeouts == { Undefined, 0, ExtendedTimeout }

\* `${timeout || 'default'}`: undefined and 0 are both falsy
TimeoutLabel(timeout) ==
    IF timeout = Undefined \/ timeout = 0 THEN "default" ELSE ToString(timeout)

\* LoginPage selectors
loginLogoSelector == ".login_logo"
usernameSelector == "#user-name"
passwordSelector == "#password"
loginButtonSelector == "#login-button"
LoginPage_errorMessageSelector == "[data-test=\"error\"]"

\* CheckoutPage selectors
firstNameSelector == "#first-name"
lastNameSelector == "#last-name"
zipCodeSelector == "#postal-code"
continueButtonSelector == "#continue"
finishButtonSelector == "#finish"
completeHeaderSelector == ".complete-header"
completeTextSelector == ".complete-text"
CheckoutPage_errorMessageSelector == ".error-message-container"
itemPriceSelector == ".inventory_item_price"
itemQuantitySelector == ".cart_quantity"

\* CartPage selectors
cartBadgeSelector == ".shopping_cart_badge"
cartLinkSelector == ".shopping_cart_link"
cartItemsSelector == ".cart_item"
checkoutButtonSelector == "#checkout"

\* InventoryPage selectors
titleSelector == ".title"
itemNameSelector == ".inventory_item_name"
itemDescriptionSelector == ".inventory_item_desc"
searchInputSelector == "#search_container"
sortDropdownSelector == ".product_sort_container"
backToProductsButtonSelector == "#back-to-products"
itemDetailsNameSelector == ".inventory_details_name"
itemDetailsDescSelector == ".inventory_details_desc"
itemDetailsPriceSelector == ".inventory_details_price"

\* fixtures
Backpack == << "Sauce", "Labs", "Backpack" >>
BikeLight == << "Sauce", "Labs", "Bike", "Light" >>
BackpackDescription == "carry.allTheThings() with the sleek, streamlined Sly Pack"
BackpackPrice == 2999    \* 29.99, in cents
BikeLightPrice == 999    \* 9.99, in cents

\* texts the page objects expect
SwagLabs == "Swag Labs"
Products == "Products"
YourCart == "Your Cart"
CheckoutYourInformation == "Checkout: Your Information"
CheckoutOverview == "Checkout: Overview"
ThankYou == "Thank you for your order!"
Dispatched ==
    "Your order has been dispatched, and will arrive just as fast as the pony can get there!"

RootUrl == << "/" >>
InventoryUrl == << "/", "i", "n", "v", "e", "n", "t", "o", "r", "y", ".", "h", "t", "m", "l" >>
inventory == << "i", "n", "v", "e", "n", "t", "o", "r", "y" >>

-----------------------------------------------------------------------------
(* String helpers *)

RECURSIVE Join(_, _)
Join(words, sep) ==
    IF words = << >> THEN ""
    ELSE IF Len(words) = 1 THEN words[1]
    ELSE words[1] \o sep \o Join(Tail(words), sep)

\* String.prototype.toLowerCase on the words of the fixture names
ToLowerCase(word) ==
    CASE word = "Sauce" -> "sauce"
      [] word = "Labs" -> "labs"
      [] word = "Backpack" -> "backpack"
      [] word = "Bike" -> "bike"
      [] word = "Light" -> "light"
      [] OTHER -> word

\* the item name as the string the tests pass
NameText(itemName) == Join(itemName, " ")

\* itemName.toLowerCase().replace(/\s+/g, '-')
FormattedItemName(itemName) ==
    Join([i \in 1..Len(itemName) |-> ToLowerCase(itemName[i])], "-")

RemoveButtonSelector(itemName) ==
    "[data-test=\"remove-" \o FormattedItemName(itemName) \o "\"]"

\* `.inventory_item:has-text("${itemName}")`
ItemSelector(itemName) ==
    ".inventory_item:has-text(\"" \o NameText(itemName) \o "\")"

\* item.locator('button:has-text("Add to cart")')
AddToCartButtonSelector(itemName) ==
    ItemSelector(itemName) \o " >> button:has-text(\"Add to cart\")"

\* `.inventory_item_name:has-text("${itemName}")`
ItemNameSelector(itemName) ==
    ".inventory_item_name:has-text(\"" \o NameText(itemName) \o "\")"

\* `$${itemPrice.toFixed(2)}` for a price given in cents
FormatPrice(cents) ==
    "$" \o ToString(cents \div 100) \o "."
        \o ToString((cents % 100) \div 10) \o ToString(cents % 10)

\* A number as parseFloat yields it and as toEqual compares it: the integer
\* part and the decimals without trailing zeros, or NaN.  A text to parse is
\* the sequence of its characters.
NaN == [int |-> 0 - 1, frac |-> << >>]

DigitChars == << "0", "1", "2", "3", "4", "5", "6", "7", "8", "9" >>

IsDigit(c) == \E d \in 1..10 : DigitChars[d] = c

DigitValue(c) == (CHOOSE d \in 1..10 : DigitChars[d] = c) - 1

RECURSIVE LeadingDigits(_)
LeadingDigits(s) ==
    IF s = << >> \/ ~IsDigit(Head(s)) THEN 0 ELSE 1 + LeadingDigits(Tail(s))

RECURSIVE IntegerValue(_)
IntegerValue(digits) ==
    IF digits = << >> THEN 0
    ELSE 10 * IntegerValue(SubSeq(digits, 1, Len(digits) - 1))
            + DigitValue(digits[Len(digits)])

RECURSIVE WithoutTrailingZeros(_)
WithoutTrailingZeros(digits) ==
    IF digits # << >> /\ digits[Len(digits)] = 0
    THEN WithoutTrailingZeros(SubSeq(digits, 1, Len(digits) - 1))
    ELSE digits

\* the number literal 29.99 of the fixture, given in cents
Number(cents) ==
    [int |-> cents \div 100,
     frac |-> WithoutTrailingZeros(<< (cents % 100) \div 10, cents % 10 >>)]

\* price.replace('$', ''): the first '$' removed, the others left
ReplaceDollar(s) ==
    IF \E i \in 1..Len(s) : s[i] = "$"
    THEN LET i == CHOOSE j \in 1..Len(s) : s[j] = "$" /\ \A k \in 1..(j - 1) : s[k] # "$"
         IN  SubSeq(s, 1, i - 1) \o SubSeq(s, i + 1, Len(s))
    ELSE s

\* parseFloat on an unsigned text without exponent or leading blanks: the
\* longest prefix that reads as a decimal number, NaN when there is none
ParseFloat(s) ==
    LET n == LeadingDigits(s)
        rest == SubSeq(s, n + 1, Len(s))
        m == IF rest # << >> /\ Head(rest) = "." THEN LeadingDigits(Tail(rest)) ELSE 0
        decimals == [i \in 1..m |-> DigitValue(rest[i + 1])]
    IN  IF n = 0 /\ m = 0 THEN NaN
        ELSE [int |-> IntegerValue(SubSeq(s, 1, n)),
              frac |-> WithoutTrailingZeros(decimals)]

-----------------------------------------------------------------------------
(* new RegExp(urlSubstring) and RegExp.prototype.test, for patterns over    *)
(* literal characters, '.', '?' and '('                                     *)

\* the regular expression's terms: an atom, optionally followed by ? or ??
Compile(p, i) ==
    LET terms[j \in 1..(Len(p) + 1)] ==
          IF j > Len(p) THEN << >>
          ELSE LET q1 == j + 1 <= Len(p) /\ p[j + 1] = "?"
                   q2 == q1 /\ j + 2 <= Len(p) /\ p[j + 2] = "?"
                   n == IF q2 THEN 3 ELSE IF q1 THEN 2 ELSE 1
               IN  << [ch |-> p[j], optional |-> q1] >> \o terms[j + n]
    IN  terms[i]

\* "Nothing to repeat" (a ? where an atom must stand) and "Unterminated group"
SyntaxError(p) ==
    \E k \in 1..Len(Compile(p, 1)) : Compile(p, 1)[k].ch \in { "?", "(" }

RECURSIVE MatchFrom(_, _, _, _)
MatchFrom(terms, k, s, i) ==
    IF k > Len(terms) THEN TRUE
    ELSE \/ terms[k].optional /\ MatchFrom(terms, k + 1, s, i)
         \/ /\ i <= Len(s)
            /\ (terms[k].ch = "." \/ terms[k].ch = s[i])
            /\ MatchFrom(terms, k + 1, s, i + 1)

\* regexp.test(s): an unanchored search
RegExpTest(p, s) ==
    \E start \in 1..(Len(s) + 1) : MatchFrom(Compile(p, 1), 1, s, start)

-----------------------------------------------------------------------------
(* Errors: an error is the chain of its frames, outermost first; the cause  *)
(* of an error is the rest of the chain.  The driver's own error is the     *)
(* innermost frame.                                                         *)

BlankFrame ==
    [kind |-> "", action |-> "", selector |-> "", value |-> "", text |-> "",
     timeout |-> "", pattern |-> << >>, url |-> << >>]

\* what the driver throws: the operation that failed and what it last saw
DriverError(op, selector, received) ==
    [BlankFrame EXCEPT !.kind = "DriverError", !.action = op,
                       !.selector = selector, !.text = received]

\* `Element "${selector}" not visible within ${timeout || 'default'} timeout: ${error}`
ElementNotVisible(selector, timeout) ==
    [BlankFrame EXCEPT !.kind = "ElementNotVisible", !.selector = selector,
                       !.timeout = TimeoutLabel(timeout)]

\* `Element "${selector}" does not have expected text "${text}" within ... timeout: ${error}`
AssertionFailure(selector, expected, timeout) ==
    [BlankFrame EXCEPT !.kind = "AssertionFailure", !.selector = selector,
                       !.text = expected, !.timeout = TimeoutLabel(timeout)]

\* `Failed to click element "${selector}": ${error}`
ClickFailure(selector) ==
    [BlankFrame EXCEPT !.kind = "ActionFailure", !.action = "click",
                       !.selector = selector]

\* `Failed to fill field "${selector}" with value "${value}": ${error}`
FillFailure(selector, value) ==
    [BlankFrame EXCEPT !.kind = "ActionFailure", !.action = "fill",
                       !.selector = selector, !.value = value]

\* `URL does not contain "${urlSubstring}". Current URL: ${currentUrl}. Error: ${error}`
\* (the current URL is read when the error is caught)
UrlAssertionFailure(urlSubstring) ==
    [BlankFrame EXCEPT !.kind = "UrlAssertionFailure", !.pattern = urlSubstring]

\* `Failed to get text contents from elements matching "${selector}": ${error}`
ReadFailure(selector) ==
    [BlankFrame EXCEPT !.kind = "ReadFailure", !.selector = selector]

\* a catch block that logs the error and does not throw it again
Rethrow_Swallow(frame, currentUrl, error) == << >>

\* what a catch block throws for the error it caught: its own frame, reading
\* this.page.url() where the message reports it, around the caught error
Rethrow(frame, currentUrl, error) ==
    << IF frame.kind = "UrlAssertionFailure"
       THEN [frame EXCEPT !.url = currentUrl] ELSE frame >> \o error

\* the error that leaves a method for a driver error raised inside the nested
\* catch blocks `wraps` (innermost first)
RECURSIVE Raise(_, _, _)
Raise(wraps, currentUrl, error) ==
    IF wraps = << >> THEN error
    ELSE Raise(Tail(wraps), currentUrl, Rethrow(Head(wraps), currentUrl, error))

-----------------------------------------------------------------------------
(* Driver operations a method awaits.  `wraps` are the frames of the catch  *)
(* blocks around the operation, innermost first.                            *)

BlankStep ==
    [op |-> "", selector |-> "", value |-> "", text |-> "", count |-> 0,
     timeout |-> Undefined, pattern |-> << >>, wraps |-> << >>]

\* the steps of a callee, run inside the caller's try block
Try(steps, frame) ==
    [i \in 1..Len(steps) |-> [steps[i] EXCEPT !.wraps = @ \o << frame >>]]

\* expect(locator).toBeVisible({ timeout })
toBeVisible(selector, timeout) ==
    [BlankStep EXCEPT !.op = "toBeVisible", !.selector = selector, !.timeout = timeout]

\* expect(locator).not.toBeVisible()
notToBeVisible(selector) ==
    [BlankStep EXCEPT !.op = "notToBeVisible", !.selector = selector]

\* expect(locator).toHaveText(text, { timeout })
toHaveText(selector, expected, timeout) ==
    [BlankStep EXCEPT !.op = "toHaveText", !.selector = selector,
                      !.text = expected, !.timeout = timeout]

\* locator.click()
click(selector) ==
    [BlankStep EXCEPT !.op = "click", !.selector = selector]

\* locator.fill(value)
fill(selector, value) ==
    [BlankStep EXCEPT !.op = "fill", !.selector = selector, !.value = value]

\* new RegExp(urlSubstring), evaluated before the driver is called
newRegExp(urlSubstring) ==
    [BlankStep EXCEPT !.op = "newRegExp", !.pattern = urlSubstring]

\* expect(page).toHaveURL(regexp)
toHaveURL(urlSubstring) ==
    [BlankStep EXCEPT !.op = "toHaveURL", !.pattern = urlSubstring]

\* locator.allTextContents()
allTextContents(selector) ==
    [BlankStep EXCEPT !.op = "allTextContents", !.selector = selector]

\* page.goto(url)
goto(target) ==
    [BlankStep EXCEPT !.op = "goto", !.pattern = target]

\* expect(locator).toHaveCount(count)
toHaveCount(selector, count) ==
    [BlankStep EXCEPT !.op = "toHaveCount", !.selector = selector, !.count = count]

\* const currentUrl = this.page.url()
pageUrl == [BlankStep EXCEPT !.op = "url"]

\* expect(page).toHaveURL(currentUrl), the string read by the statement before
toHaveURLString == [BlankStep EXCEPT !.op = "toHaveURL(string)"]

\* locator.press(key)
press(selector, key) ==
    [BlankStep EXCEPT !.op = "press", !.selector = selector, !.value = key]

\* locator.selectOption(option)
selectOption(selector, option) ==
    [BlankStep EXCEPT !.op = "selectOption", !.selector = selector, !.value = option]

\* getLocator(selector).first()
First(selector) == selector \o " >> nth=0"

\* expect(received).toEqual(expected) on a local of the method
expectToEqual(received, expected) ==
    [BlankStep EXCEPT !.op = "toEqual", !.value = received, !.pattern = expected]

-----------------------------------------------------------------------------
(* BasePage *)

\* navigation reported as a failed action
navigate_Wrapped(target) == Try(<< goto(target) >>, ClickFailure(""))

navigate(target) == << goto(target) >>

\* the wait made with the driver's default whatever the caller passes
waitForElement_DefaultTimeout(selector, timeout) ==
    Try(<< toBeVisible(selector, Undefined) >>, ElementNotVisible(selector, timeout))

waitForElement(selector, timeout) ==
    Try(<< toBeVisible(selector, timeout) >>, ElementNotVisible(selector, timeout))

\* the expectation outside any try block
assertElementText_NoCatch(selector, expected, timeout) ==
    << toHaveText(selector, expected, timeout) >>

assertElementText(selector, expected, timeout) ==
    Try(<< toHaveText(selector, expected, timeout) >>,
        AssertionFailure(selector, expected, timeout))

\* the click without the wait before it
clickElement_NoWait(selector) ==
    Try(<< click(selector) >>, ClickFailure(selector))

\* the click issued a second time
clickElement_ClickTwice(selector) ==
    Try(waitForElement(selector, Undefined) \o << click(selector), click(selector) >>,
        ClickFailure(selector))

\* the wait outside the try block
clickElement_WaitOutsideTry(selector) ==
    waitForElement(selector, Undefined)
        \o Try(<< click(selector) >>, ClickFailure(selector))

clickElement(selector) ==
    Try(waitForElement(selector, Undefined) \o << click(selector) >>,
        ClickFailure(selector))

fillField(selector, value) ==
    Try(waitForElement(selector, Undefined) \o << fill(selector, value) >>,
        FillFailure(selector, value))

assertUrlContains(urlSubstring) ==
    Try(<< newRegExp(urlSubstring), toHaveURL(urlSubstring) >>,
        UrlAssertionFailure(urlSubstring))

\* the read made to wait for the first element
getAllTextContents_WaitFirst(selector) ==
    Try(waitForElement(selector, Undefined) \o << allTextContents(selector) >>,
        ReadFailure(selector))

getAllTextContents(selector) ==
    Try(<< allTextContents(selector) >>, ReadFailure(selector))

-----------------------------------------------------------------------------
(* Page objects *)

\* LoginPage
LoginPage_navigate == navigate(RootUrl)

\* the password filled before the username
login_PasswordFirst(username, password) ==
    fillField(passwordSelector, password)
        \o fillField(usernameSelector, username)
        \o clickElement(loginButtonSelector)

\* the two fields filled and the form left unsubmitted
login_NoSubmit(username, password) ==
    fillField(usernameSelector, username)
        \o fillField(passwordSelector, password)

login(username, password) ==
    fillField(usernameSelector, username)
        \o fillField(passwordSelector, password)
        \o clickElement(loginButtonSelector)

assertLoginSuccess == assertUrlContains(inventory)

assertLoginPage ==
    waitForElement(loginLogoSelector, Undefined)
        \o assertElementText(loginLogoSelector, SwagLabs, Undefined)

\* the error element awaited and its text left unread
assertLoginError_AnyMessage(message) ==
    waitForElement(LoginPage_errorMessageSelector, Undefined)

assertLoginError(message) ==
    waitForElement(LoginPage_errorMessageSelector, Undefined)
        \o assertElementText(LoginPage_errorMessageSelector, message, Undefined)

\* LoginPage, the variant without BasePage: page.fill / page.click
\* the password filled before the username
Simple_login_PasswordFirst(username, password) ==
    << fill(passwordSelector, password), fill(usernameSelector, username),
       click(loginButtonSelector) >>

Simple_login(username, password) ==
    << fill(usernameSelector, username), fill(passwordSelector, password),
       click(loginButtonSelector) >>

\* CheckoutPage
\* the three fields filled and the form left unsubmitted
fillCheckoutInfo_NoContinue(firstName, lastName, zip) ==
    fillField(firstNameSelector, firstName)
        \o fillField(lastNameSelector, lastName)
        \o fillField(zipCodeSelector, zip)

\* the first and the last name typed into each other's field
fillCheckoutInfo_NamesSwapped(firstName, lastName, zip) ==
    fillField(firstNameSelector, lastName)
        \o fillField(lastNameSelector, firstName)
        \o fillField(zipCodeSelector, zip)
        \o clickElement(continueButtonSelector)

fillCheckoutInfo(firstName, lastName, zip) ==
    fillField(firstNameSelector, firstName)
        \o fillField(lastNameSelector, lastName)
        \o fillField(zipCodeSelector, zip)
        \o clickElement(continueButtonSelector)

finishCheckout == clickElement(finishButtonSelector)

\* CheckoutPage, the variant without BasePage
Simple_fillCheckoutInfo(firstName, lastName, zip) ==
    << fill(firstNameSelector, firstName), fill(lastNameSelector, lastName),
       fill(zipCodeSelector, zip), click(continueButtonSelector) >>

Simple_finishCheckout == << click(finishButtonSelector) >>

assertCheckoutPage ==
    << pageUrl, toHaveURLString >>
        \o assertElementText(titleSelector, CheckoutYourInformation, Undefined)

assertOverviewPage ==
    << pageUrl, toHaveURLString >>
        \o assertElementText(titleSelector, CheckoutOverview, Undefined)

assertOrderConfirmation ==
    assertElementText(completeHeaderSelector, ThankYou, Undefined)
        \o assertElementText(completeTextSelector, Dispatched, Undefined)

assertErrorMessage(message) ==
    assertElementText(CheckoutPage_errorMessageSelector, message, Undefined)

assertOrderSummary(itemName, itemPrice, itemQuantity) ==
    assertElementText(itemNameSelector, NameText(itemName), Undefined)
        \o assertElementText(itemPriceSelector, FormatPrice(itemPrice), Undefined)
        \o assertElementText(itemQuantitySelector, itemQuantity, Undefined)

\* CartPage
\* the click made and the control not looked at again
removeItem_NoCheck(itemName) ==
    waitForElement(RemoveButtonSelector(itemName), Undefined)
        \o << click(RemoveButtonSelector(itemName)) >>

removeItem(itemName) ==
    waitForElement(RemoveButtonSelector(itemName), Undefined)
        \o << click(RemoveButtonSelector(itemName)) >>
        \o << notToBeVisible(RemoveButtonSelector(itemName)) >>

\* the title checked after a click on the cart link, as assertItemAdded does
assertCartPage_ViaCartLink ==
    clickElement(cartLinkSelector) \o assertElementText(titleSelector, YourCart, Undefined)

assertCartPage == assertElementText(titleSelector, YourCart, Undefined)

\* the badge polled with no timeout of its own
assertCartItemCount_DefaultTimeout(expectedItemCount) ==
    << toHaveText(cartBadgeSelector, ToString(expectedItemCount), Undefined) >>

assertCartItemCount(expectedItemCount) ==
    << toHaveText(cartBadgeSelector, ToString(expectedItemCount), ExtendedTimeout) >>

\* the button awaited and left unclicked
addItemToCart_NoClick(itemName) ==
    waitForElement(ItemSelector(itemName), Undefined)
        \o << toBeVisible(AddToCartButtonSelector(itemName), Undefined) >>

addItemToCart(itemName) ==
    waitForElement(ItemSelector(itemName), Undefined)
        \o << toBeVisible(AddToCartButtonSelector(itemName), Undefined),
              click(AddToCartButtonSelector(itemName)) >>

goToCart == clickElement(cartLinkSelector)

assertItemAdded(itemName) ==
    goToCart
        \o waitForElement(ItemNameSelector(itemName), ExtendedTimeout)
        \o << toHaveText(ItemNameSelector(itemName), NameText(itemName), Undefined) >>

assertCartIsEmpty == << toHaveCount(cartItemsSelector, 0) >>

assertItemRemoved(itemName) ==
    goToCart
        \o << notToBeVisible(ItemNameSelector(itemName)),
              toHaveCount(ItemNameSelector(itemName), 0) >>

\* the click aimed at the button of the next screen
proceedToCheckout_Continue == clickElement(continueButtonSelector)

proceedToCheckout == clickElement(checkoutButtonSelector)

\* InventoryPage
assertInventoryPage == assertElementText(titleSelector, Products, Undefined)

assertItemInSearchResults(itemName) ==
    waitForElement(ItemNameSelector(itemName), Undefined)

\* the item waited for instead of its absence
assertItemNotInSearchResults_Visible(itemName) ==
    << toBeVisible(ItemNameSelector(itemName), Undefined) >>

assertItemNotInSearchResults(itemName) ==
    << notToBeVisible(ItemNameSelector(itemName)) >>

searchItemExistsInInventory(itemName) ==
    waitForElement(ItemNameSelector(itemName), Undefined)

\* the search text typed as the words of itemName
searchItem(itemName) ==
    waitForElement(searchInputSelector, Undefined)
        \o << fill(searchInputSelector, itemName), press(searchInputSelector, "Enter") >>

selectProductSortOption(sortOption) ==
    waitForElement(sortDropdownSelector, Undefined)
        \o << selectOption(sortDropdownSelector, sortOption) >>

verifyFirstItemInList(itemName) ==
    << toHaveText(First(itemNameSelector), NameText(itemName), Undefined) >>

\* the price looked for in every price element
verifyFirstItemPrice_AnyItem(price) ==
    << toHaveText(itemPriceSelector, FormatPrice(price), Undefined) >>

verifyFirstItemPrice(price) ==
    << toHaveText(First(itemPriceSelector), FormatPrice(price), Undefined) >>

\* the button awaited and left unclicked
backToProducts_NoClick == waitForElement(backToProductsButtonSelector, Undefined)

backToProducts == clickElement(backToProductsButtonSelector)

clickOnInventoryItem(itemName) == clickElement(ItemNameSelector(itemName))

\* InventoryPage
verifyItemDetails(itemName, itemDescription, itemPrice) ==
    assertElementText(itemDetailsNameSelector, itemName, Undefined)
        \o assertElementText(itemDetailsDescSelector, itemDescription, Undefined)
        \o assertElementText(itemDetailsPriceSelector, FormatPrice(itemPrice), Undefined)

verifyItemDescriptions(expectedItems) ==
    getAllTextContents(itemNameSelector)
        \o getAllTextContents(itemDescriptionSelector)
        \o << expectToEqual("itemNames",
                 [i \in 1..Len(expectedItems) |-> expectedItems[i].name]),
              expectToEqual("itemDescriptions",
                 [i \in 1..Len(expectedItems) |-> expectedItems[i].description]) >>

\* the names compared and the prices left unchecked
verifyItemPrices_NamesOnly(expectedItems) ==
    getAllTextContents(itemNameSelector)
        \o getAllTextContents(itemPriceSelector)
        \o << expectToEqual("itemNames",
                 [i \in 1..Len(expectedItems) |-> expectedItems[i].name]) >>

verifyItemPrices(expectedItems) ==
    getAllTextContents(itemNameSelector)
        \o getAllTextContents(itemPriceSelector)
        \o << expectToEqual("itemNames",
                 [i \in 1..Len(expectedItems) |-> expectedItems[i].name]),
              expectToEqual("formattedPrices",
                 [i \in 1..Len(expectedItems) |-> Number(expectedItems[i].price)]) >>

-----------------------------------------------------------------------------
(* Calls a test makes *)

BlankCall ==
    [page |-> "", method |-> "", selector |-> "", value |-> "", text |-> "",
     timeout |-> Undefined, pattern |-> << >>, a |-> "", b |-> "", c |-> "",
     itemName |-> << >>, price |-> 0, count |-> 0, items |-> << >>]

\* fixtures/personas.ts: users (username, password)
Users ==
    { << "standard_user", "secret_sauce" >>, << "invalid_user", "invalid_password" >>,
      << "standard_user", "" >>, << "", "secret_sauce" >> }

\* fixtures/personas.ts: persona (firstName, lastName, zipCode)
Personas ==
    { << "John", "Doe", "12345" >>, << "", "Doe", "12345" >>, << "John", "", "12345" >>,
      << "John", "Doe", "" >>, << "", "", "" >> }

\* texts an element may show
Texts == { "Products", "Your Cart" }

\* lists the catalog may show
ItemLists ==
    { << >>, << NameText(Backpack) >>, << NameText(Backpack), NameText(BikeLight) >>,
      << NameText(BikeLight), NameText(Backpack) >> }

\* URL substrings tried: plain ones, and ones holding '.', '?', '(' and '/'
UrlSubstrings ==
    { << >>, << "a" >>, << "/" >>, << "a", "." >>, << "a", "/" >>, << "/", "?" >>,
      << "?" >>, << "(" >>, << "/", "a", "?" >> }

AboutBlank == << "a", "b", "o", "u", "t", ":", "b", "l", "a", "n", "k" >>

\* URLs the browser may be at
Urls ==
    { RootUrl, InventoryUrl, << "/", "a", "/" >>, << "/", "a", "." >>,
      << "/", "?" >>, << "/", "(" >> }

FieldSelectors ==
    { usernameSelector, passwordSelector, firstNameSelector, lastNameSelector,
      zipCodeSelector }

TextSelectors ==
    { titleSelector, itemDetailsNameSelector, itemDetailsDescSelector,
      itemDetailsPriceSelector }

ListSelectors == { itemNameSelector }

BasePageCalls ==
    { [BlankCall EXCEPT !.page = "BasePage", !.method = "navigate", !.pattern = t]
        : t \in { InventoryUrl } }
    \cup { [BlankCall EXCEPT !.page = "BasePage", !.method = "waitForElement",
                             !.selector = titleSelector, !.timeout = t] : t \in Timeouts }
    \cup { [BlankCall EXCEPT !.page = "BasePage", !.method = "assertElementText",
                             !.selector = titleSelector, !.text = x, !.timeout = t]
             : x \in Texts, t \in { Undefined, ExtendedTimeout } }
    \cup { [BlankCall EXCEPT !.page = "BasePage", !.method = "clickElement",
                             !.selector = titleSelector] }
    \cup { [BlankCall EXCEPT !.page = "BasePage", !.method = "fillField",
                             !.selector = firstNameSelector, !.value = v]
             : v \in { "", "John" } }
    \cup { [BlankCall EXCEPT !.page = "BasePage", !.method = "assertUrlContains",
                             !.pattern = p] : p \in UrlSubstrings }
    \cup { [BlankCall EXCEPT !.page = "BasePage", !.method = "getAllTextContents",
                             !.selector = itemNameSelector] }
    \* a timeout passed to a method whose parameter list has none: the extra
    \* argument is dropped at the call
    \cup { [BlankCall EXCEPT !.page = "BasePage", !.method = "clickElement",
                             !.selector = titleSelector, !.timeout = ExtendedTimeout] }
    \cup { [BlankCall EXCEPT !.page = "BasePage", !.method = "fillField",
                             !.selector = firstNameSelector, !.value = "John",
                             !.timeout = ExtendedTimeout] }
    \cup { [BlankCall EXCEPT !.page = "BasePage", !.method = "assertUrlContains",
                             !.pattern = << "/" >>, !.timeout = ExtendedTimeout] }

PageObjectCalls ==
    { [BlankCall EXCEPT !.page = "LoginPage", !.method = "navigate"] }
    \cup { [BlankCall EXCEPT !.page = "LoginPage", !.method = "login",
                             !.a = u[1], !.b = u[2]] : u \in Users }
    \cup { [BlankCall EXCEPT !.page = "Simple_LoginPage", !.method = "login",
                             !.a = "standard_user", !.b = "secret_sauce"] }
    \cup { [BlankCall EXCEPT !.page = "LoginPage", !.method = "assertLoginSuccess"] }
    \cup { [BlankCall EXCEPT !.page = "CheckoutPage", !.method = "fillCheckoutInfo",
                             !.a = u[1], !.b = u[2], !.c = u[3]] : u \in Personas }
    \cup { [BlankCall EXCEPT !.page = "Simple_CheckoutPage", !.method = "fillCheckoutInfo",
                             !.a = "John", !.b = "Doe", !.c = "12345"] }
    \cup { [BlankCall EXCEPT !.page = pg, !.method = "finishCheckout"]
             : pg \in { "CheckoutPage", "Simple_CheckoutPage" } }
    \cup { [BlankCall EXCEPT !.page = "CartPage", !.method = "removeItem",
                             !.itemName = Backpack] }
    \cup { [BlankCall EXCEPT !.page = "InventoryPage", !.method = "verifyItemDetails",
                             !.itemName = Backpack, !.text = BackpackDescription,
                             !.price = BackpackPrice] }

Calls == BasePageCalls \cup PageObjectCalls

\* fixtures/personas.ts: users, with the accounts the site treats specially
AppUsers ==
    Users \cup { << "locked_out_user", "secret_sauce" >>,
                 << "problem_user", "secret_sauce" >>,
                 << "performance_glitch_user", "secret_sauce" >> }

\* fixtures/personas.ts: persona, and the other ways of leaving fields empty
Forms ==
    Personas \cup { << "", "", "12345" >>, << "", "Doe", "" >>, << "John", "", "" >> }

\* messages the tests expect after a rejected login
UsernameRequired == "Epic sadface: Username is required"
PasswordRequired == "Epic sadface: Password is required"
NoMatch == "Epic sadface: Username and password do not match any user in this service"
LockedOut == "Epic sadface: Sorry, this user has been locked out."

LoginMessages == { UsernameRequired, PasswordRequired, NoMatch, LockedOut }

\* messages the tests expect after a rejected checkout form
FirstNameRequired == "Error: First Name is required"
LastNameRequired == "Error: Last Name is required"
PostalCodeRequired == "Error: Postal Code is required"

CheckoutMessages == { FirstNameRequired, LastNameRequired, PostalCodeRequired }

\* fixtures/products.ts, in the order the catalog lists them
Catalog == << Backpack, BikeLight >>

Price(item) == IF item = Backpack THEN BackpackPrice ELSE BikeLightPrice

\* item names the tests pass
ItemNames == { Catalog[i] : i \in 1..Len(Catalog) }

\* the calls the suites make against the application
AppCalls ==
    { [BlankCall EXCEPT !.page = "LoginPage", !.method = m]
        : m \in { "navigate", "assertLoginPage", "assertLoginSuccess" } }
    \cup { [BlankCall EXCEPT !.page = "LoginPage", !.method = "login",
                             !.a = u[1], !.b = u[2]] : u \in AppUsers }
    \cup { [BlankCall EXCEPT !.page = "LoginPage", !.method = "assertLoginError",
                             !.text = m] : m \in LoginMessages }
    \cup { [BlankCall EXCEPT !.page = "InventoryPage", !.method = "assertInventoryPage"] }
    \cup { [BlankCall EXCEPT !.page = "InventoryPage", !.method = m, !.itemName = i]
             : m \in { "assertItemInSearchResults", "assertItemNotInSearchResults" },
               i \in ItemNames }
    \cup { [BlankCall EXCEPT !.page = "CartPage", !.method = m]
             : m \in { "assertCartPage", "goToCart", "assertCartIsEmpty",
                       "proceedToCheckout" } }
    \cup { [BlankCall EXCEPT !.page = "CartPage", !.method = "assertCartItemCount",
                             !.count = n] : n \in 0..Len(Catalog) }
    \cup { [BlankCall EXCEPT !.page = "CartPage", !.method = m, !.itemName = i]
             : m \in { "addItemToCart", "assertItemAdded", "removeItem",
                       "assertItemRemoved" },
               i \in ItemNames }
    \cup { [BlankCall EXCEPT !.page = "CheckoutPage", !.method = m]
             : m \in { "assertCheckoutPage", "assertOverviewPage", "finishCheckout",
                       "assertOrderConfirmation" } }
    \cup { [BlankCall EXCEPT !.page = "CheckoutPage", !.method = "fillCheckoutInfo",
                             !.a = u[1], !.b = u[2], !.c = u[3]] : u \in Forms }
    \cup { [BlankCall EXCEPT !.page = "CheckoutPage", !.method = "assertErrorMessage",
                             !.text = m] : m \in CheckoutMessages }
    \cup { [BlankCall EXCEPT !.page = "CheckoutPage", !.method = "assertOrderSummary",
                             !.itemName = i, !.price = Price(i), !.text = "1"]
             : i \in ItemNames }
    \cup { [BlankCall EXCEPT !.page = "CheckoutPage", !.method = "assertOrderSummary",
                             !.itemName = Backpack, !.price = BikeLightPrice,
                             !.text = "1"] }

\* the driver operations a call awaits, in order
Program(c) ==
    CASE c.page = "BasePage" /\ c.method = "navigate" -> navigate(c.pattern)
      [] c.method = "waitForElement" -> waitForElement(c.selector, c.timeout)
      [] c.method = "assertElementText" -> assertElementText(c.selector, c.text, c.timeout)
      [] c.method = "clickElement" -> clickElement(c.selector)
      [] c.method = "fillField" -> fillField(c.selector, c.value)
      [] c.method = "assertUrlContains" -> assertUrlContains(c.pattern)
      [] c.method = "getAllTextContents" -> getAllTextContents(c.selector)
      [] c.page = "LoginPage" /\ c.method = "navigate" -> LoginPage_navigate
      [] c.page = "LoginPage" /\ c.method = "login" -> login(c.a, c.b)
      [] c.page = "Simple_LoginPage" /\ c.method = "login" -> Simple_login(c.a, c.b)
      [] c.method = "assertLoginSuccess" -> assertLoginSuccess
      [] c.page = "CheckoutPage" /\ c.method = "fillCheckoutInfo" ->
            fillCheckoutInfo(c.a, c.b, c.c)
      [] c.page = "Simple_CheckoutPage" /\ c.method = "fillCheckoutInfo" ->
            Simple_fillCheckoutInfo(c.a, c.b, c.c)
      [] c.page = "CheckoutPage" /\ c.method = "finishCheckout" -> finishCheckout
      [] c.page = "Simple_CheckoutPage" /\ c.method = "finishCheckout" ->
            Simple_finishCheckout
      [] c.method = "removeItem" -> removeItem(c.itemName)
      [] c.method = "assertLoginPage" -> assertLoginPage
      [] c.method = "assertLoginError" -> assertLoginError(c.text)
      [] c.method = "assertInventoryPage" -> assertInventoryPage
      [] c.method = "assertItemInSearchResults" -> assertItemInSearchResults(c.itemName)
      [] c.method = "assertItemNotInSearchResults" ->
            assertItemNotInSearchResults(c.itemName)
      [] c.method = "assertCartPage" -> assertCartPage
      [] c.method = "assertCartItemCount" -> assertCartItemCount(c.count)
      [] c.method = "addItemToCart" -> addItemToCart(c.itemName)
      [] c.method = "goToCart" -> goToCart
      [] c.method = "assertItemAdded" -> assertItemAdded(c.itemName)
      [] c.method = "assertCartIsEmpty" -> assertCartIsEmpty
      [] c.method = "assertItemRemoved" -> assertItemRemoved(c.itemName)
      [] c.method = "proceedToCheckout" -> proceedToCheckout
      [] c.method = "assertCheckoutPage" -> assertCheckoutPage
      [] c.method = "assertOverviewPage" -> assertOverviewPage
      [] c.method = "assertOrderConfirmation" -> assertOrderConfirmation
      [] c.method = "assertErrorMessage" -> assertErrorMessage(c.text)
      [] c.method = "assertOrderSummary" -> assertOrderSummary(c.itemName, c.price, c.text)
      [] c.method = "searchItemExistsInInventory" ->
            searchItemExistsInInventory(c.itemName)
      [] c.method = "searchItem" -> searchItem(c.itemName)
      [] c.method = "selectProductSortOption" -> selectProductSortOption(c.text)
      [] c.method = "verifyFirstItemInList" -> verifyFirstItemInList(c.itemName)
      [] c.method = "verifyFirstItemPrice" -> verifyFirstItemPrice(c.price)
      [] c.method = "backToProducts" -> backToProducts
      [] c.method = "clickOnInventoryItem" -> clickOnInventoryItem(c.itemName)
      [] c.method = "verifyItemDescriptions" -> verifyItemDescriptions(c.items)
      [] c.method = "verifyItemPrices" -> verifyItemPrices(c.items)
      [] c.method = "verifyItemDetails" ->
            verifyItemDetails(NameText(c.itemName), c.text, c.price)

\* what a call that completes returns: Promise<Locator>, Promise<string[]>, Promise<void>
BlankValue == [kind |-> "void", selector |-> "", texts |-> << >>]

ReturnValue(c, read) ==
    CASE c.method = "waitForElement" ->
            [BlankValue EXCEPT !.kind = "Locator", !.selector = c.selector]
      [] c.method = "getAllTextContents" ->
            [BlankValue EXCEPT !.kind = "string[]", !.texts = read]
      [] OTHER -> BlankValue

-----------------------------------------------------------------------------
(* State machine *)

NoResult == [status |-> "none", error |-> << >>, value |-> BlankValue]

\* a fresh browser context: no session cookie, nothing in local storage
NoStorage == [user |-> "", cart |-> << >>]

\* chunkArray and debounce not in use
NoChunk ==
    [array |-> << >>, size |-> 1, i |-> 0, result |-> << >>, status |-> "none",
     turn |-> 0]

NoDebounced ==
    [wait |-> 0, timeout |-> 0, timers |-> { }, now |-> 0, calls |-> << >>,
     invoked |-> << >>]

\* no expectation polling
NoPoll ==
    [default |-> 0, call |-> BlankCall, shown |-> 0, appears |-> TRUE, now |-> 0,
     status |-> "none"]

\* no call made yet
NoSnapshot == [url |-> << >>, field |-> << >>, dom |-> << >>, storage |-> NoStorage]

\* the page layer before the test has made a call
PageInit ==
    /\ visible = { }
    /\ text = [s \in TextSelectors |-> ""]
    /\ field = [s \in FieldSelectors |-> ""]
    /\ url = AboutBlank
    /\ dom = [s \in ListSelectors |-> << >>]
    /\ call = BlankCall
    /\ pc = 0
    /\ trace = << >>
    /\ result = NoResult
    /\ ncalls = 0
    /\ storage = NoStorage
    /\ before = NoSnapshot

Init ==
    /\ PageInit
    /\ chunk = NoChunk
    /\ debounced = NoDebounced
    /\ poll = NoPoll

\* the test calls a method of a page object built on its page
Call(c) ==
    /\ pc = 0
    /\ ncalls < MaxCalls
    /\ call' = c
    /\ pc' = 1
    /\ trace' = << >>
    /\ result' = [NoResult EXCEPT !.status = "pending"]
    /\ ncalls' = ncalls + 1
    /\ UNCHANGED << visible, text, field, url, dom >>
    /\ UNCHANGED << storage, before, helpers >>

Step == Program(call)[pc]

At(op) == pc > 0 /\ Step.op = op

\* the driver operation as the trace records it
Issued(ok) ==
    [op |-> Step.op, selector |-> Step.selector, value |-> Step.value,
     text |-> Step.text, count |-> Step.count, timeout |-> Step.timeout,
     pattern |-> Step.pattern, ok |-> ok]

\* await: a rejected promise throws into the enclosing catch blocks and, past
\* them, out of the method; a fulfilled one lets the method go on to its next
\* statement, or return after its last
Await(error, read) ==
    IF error # << >>
    THEN /\ pc' = 0
         /\ result' = [status |-> "failed", error |-> error, value |-> BlankValue]
    ELSE IF pc = Len(Program(call))
    THEN /\ pc' = 0
         /\ result' = [status |-> "passed", error |-> << >>,
                       value |-> ReturnValue(call, read)]
    ELSE /\ pc' = pc + 1
         /\ result' = result

\* the error a failed driver operation raises out of the method
Thrown(ok, currentUrl, received) ==
    IF ok THEN << >>
    ELSE Raise(Step.wraps, currentUrl, << DriverError(Step.op, Step.selector, received) >>)

\* expect(locator).toBeVisible: passes at once on a visible element, else polls
\* until the element appears or the timeout ends
ToBeVisible ==
    /\ At("toBeVisible")
    /\ \E appears \in BOOLEAN :
         LET ok == Step.selector \in visible \/ appears
         IN  /\ visible' = IF ok THEN visible \cup { Step.selector } ELSE visible
             /\ trace' = Append(trace, Issued(ok))
             /\ Await(Thrown(ok, url, "hidden"), << >>)
    /\ UNCHANGED << text, field, url, dom, call, ncalls >>
    /\ UNCHANGED << storage, before, helpers >>

\* expect(locator).not.toBeVisible
NotToBeVisible ==
    /\ At("notToBeVisible")
    /\ \E vanishes \in BOOLEAN :
         LET ok == Step.selector \notin visible \/ vanishes
         IN  /\ visible' = IF ok THEN visible \ { Step.selector } ELSE visible
             /\ trace' = Append(trace, Issued(ok))
             /\ Await(Thrown(ok, url, "visible"), << >>)
    /\ UNCHANGED << text, field, url, dom, call, ncalls >>
    /\ UNCHANGED << storage, before, helpers >>

\* locator.click: the driver waits for the element itself, then clicks unless
\* the element rejects the click (disabled, covered, detached)
Click ==
    /\ At("click")
    /\ \E appears \in BOOLEAN, accepted \in BOOLEAN :
         LET there == Step.selector \in visible \/ appears
             ok == there /\ accepted
         IN  /\ visible' = IF there THEN visible \cup { Step.selector } ELSE visible
             /\ trace' = Append(trace, Issued(ok))
             /\ Await(Thrown(ok, url, IF there THEN "rejected" ELSE "hidden"), << >>)
    /\ UNCHANGED << text, field, url, dom, call, ncalls >>
    /\ UNCHANGED << storage, before, helpers >>

\* locator.fill / page.fill: as click, and sets the field's content
Fill ==
    /\ At("fill")
    /\ \E appears \in BOOLEAN, accepted \in BOOLEAN :
         LET there == Step.selector \in visible \/ appears
             ok == there /\ accepted
         IN  /\ visible' = IF there THEN visible \cup { Step.selector } ELSE visible
             /\ field' = IF ok THEN [field EXCEPT ![Step.selector] = Step.value]
                         ELSE field
             /\ trace' = Append(trace, Issued(ok))
             /\ Await(Thrown(ok, url, IF there THEN "rejected" ELSE "hidden"), << >>)
    /\ UNCHANGED << text, url, dom, call, ncalls >>
    /\ UNCHANGED << storage, before, helpers >>

\* expect(locator).toHaveText: passes at once when the element shows the text,
\* else polls while the page renders, until the text shows or the timeout ends
ToHaveText ==
    /\ At("toHaveText")
    /\ LET sel == Step.selector
           shows(v, t) == sel \in v /\ t[sel] = Step.text
       IN  IF shows(visible, text)
           THEN /\ UNCHANGED << visible, text >>
                /\ trace' = Append(trace, Issued(TRUE))
                /\ Await(<< >>, << >>)
           ELSE \E rendered \in BOOLEAN, t \in Texts \cup { Step.text } :
                  /\ visible' = IF rendered THEN visible \cup { sel } ELSE visible
                  /\ text' = IF rendered THEN [text EXCEPT ![sel] = t] ELSE text
                  /\ trace' = Append(trace, Issued(shows(visible', text')))
                  /\ Await(Thrown(shows(visible', text'), url,
                                  IF sel \in visible' THEN text'[sel] ELSE "hidden"),
                           << >>)
    /\ UNCHANGED << field, url, dom, call, ncalls >>
    /\ UNCHANGED << storage, before, helpers >>

\* new RegExp(urlSubstring): throws a SyntaxError on an invalid pattern, before
\* any driver operation is issued
NewRegExp ==
    /\ At("newRegExp")
    /\ Await(IF SyntaxError(Step.pattern)
             THEN Raise(Step.wraps, url,
                        << [BlankFrame EXCEPT !.kind = "SyntaxError",
                                              !.pattern = Step.pattern] >>)
             ELSE << >>, << >>)
    /\ UNCHANGED << visible, text, field, url, dom, call, trace, ncalls >>
    /\ UNCHANGED << storage, before, helpers >>

\* expect(page).toHaveURL(regexp): passes at once when the URL matches, else
\* polls while the browser navigates, until it matches or the timeout ends
ToHaveURL ==
    /\ At("toHaveURL")
    /\ IF RegExpTest(Step.pattern, url)
       THEN /\ url' = url
            /\ trace' = Append(trace, Issued(TRUE))
            /\ Await(<< >>, << >>)
       ELSE \E u \in Urls \cup { url } :
              /\ url' = u
              /\ trace' = Append(trace, Issued(RegExpTest(Step.pattern, u)))
              /\ Await(Thrown(RegExpTest(Step.pattern, u), u, "url"), << >>)
    /\ UNCHANGED << visible, text, field, dom, call, ncalls >>
    /\ UNCHANGED << storage, before, helpers >>

\* locator.allTextContents: reads what matches now, without waiting
AllTextContents ==
    /\ At("allTextContents")
    /\ \E ok \in BOOLEAN :
         /\ trace' = Append(trace, Issued(ok))
         /\ Await(Thrown(ok, url, "closed"), dom[Step.selector])
    /\ UNCHANGED << visible, text, field, url, dom, call, ncalls >>
    /\ UNCHANGED << storage, before, helpers >>

\* page.goto: loads a new document, or fails (navigation error, timeout)
Goto ==
    /\ At("goto")
    /\ \/ /\ url' = Step.pattern
          /\ visible' = { }
          /\ text' = [s \in TextSelectors |-> ""]
          /\ field' = [s \in FieldSelectors |-> ""]
          /\ dom' \in [ListSelectors -> ItemLists]
          /\ trace' = Append(trace, Issued(TRUE))
          /\ Await(<< >>, << >>)
       \/ /\ UNCHANGED << url, visible, text, field, dom >>
          /\ trace' = Append(trace, Issued(FALSE))
          /\ Await(Thrown(FALSE, url, "net"), << >>)
    /\ UNCHANGED << call, ncalls >>
    /\ UNCHANGED << storage, before, helpers >>

Next ==
    \/ \E c \in Calls : Call(c)
    \/ ToBeVisible
    \/ NotToBeVisible
    \/ Click
    \/ Fill
    \/ ToHaveText
    \/ NewRegExp
    \/ ToHaveURL
    \/ AllTextContents
    \/ Goto

Spec == Init /\ [][Next]_vars

\* an operation handed to the driver ends: at its own deadline, or when the
\* test's deadline closes the page under it
DriverOperation ==
    \/ ToBeVisible
    \/ NotToBeVisible
    \/ Click
    \/ Fill
    \/ ToHaveText
    \/ NewRegExp
    \/ ToHaveURL
    \/ AllTextContents
    \/ Goto

\* a test of at most MaxFairCalls calls, each of whose driver operations ends
FairCall(c) == ncalls < MaxFairCalls /\ Call(c)

FairNext ==
    \/ \E c \in Calls : FairCall(c)
    \/ DriverOperation

FairSpec == Init /\ [][FairNext]_vars /\ WF_vars(DriverOperation)

-----------------------------------------------------------------------------
(* The application the suites drive: what each of its screens shows and how *)
(* it reacts to a click.  It is the system under test, not part of the      *)
(* page-interaction layer; it is described here as the suites expect it to  *)
(* behave, with a driver that reports what the settled page shows.          *)

\* every selector the calls hand to the driver
AppSelectors ==
    UNION { { Program(c)[i].selector : i \in 1..Len(Program(c)) } : c \in AppCalls }

CartUrl == << "/", "c", "a", "r", "t", ".", "h", "t", "m", "l" >>
CheckoutStepOneUrl == << "/", "c", "h", "e", "c", "k", "o", "u", "t", "-", "s", "t", "e", "p", "-", "o", "n", "e", ".", "h", "t", "m", "l" >>
CheckoutStepTwoUrl == << "/", "c", "h", "e", "c", "k", "o", "u", "t", "-", "s", "t", "e", "p", "-", "t", "w", "o", ".", "h", "t", "m", "l" >>
CheckoutCompleteUrl == << "/", "c", "h", "e", "c", "k", "o", "u", "t", "-", "c", "o", "m", "p", "l", "e", "t", "e", ".", "h", "t", "m", "l" >>

\* screens behind the login, all with the header that holds the cart link
LoggedInUrls ==
    { InventoryUrl, CartUrl, CheckoutStepOneUrl, CheckoutStepTwoUrl,
      CheckoutCompleteUrl }

Title(u) ==
    CASE u = InventoryUrl -> Products
      [] u = CartUrl -> YourCart
      [] u = CheckoutStepOneUrl -> CheckoutYourInformation
      [] u = CheckoutStepTwoUrl -> CheckoutOverview
      [] OTHER -> "Checkout: Complete!"

\* the accounts that may log in; problem_user is served a defective catalog
StandardUser == "standard_user"
ProblemUser == "problem_user"
PerformanceGlitchUser == "performance_glitch_user"
LockedOutUser == "locked_out_user"
SecretSauce == "secret_sauce"

\* the credential pairs of the fixture set that the application lets in
ValidUsers ==
    { << StandardUser, SecretSauce >>, << ProblemUser, SecretSauce >>,
      << PerformanceGlitchUser, SecretSauce >> }

\* what the login form answers: "" when it lets the user in
LoginResponse(username, password) ==
    CASE username = "" -> UsernameRequired
      [] password = "" -> PasswordRequired
      [] username \in { StandardUser, ProblemUser, PerformanceGlitchUser }
            /\ password = SecretSauce -> ""
      [] username = LockedOutUser /\ password = SecretSauce -> LockedOut
      [] OTHER -> NoMatch

\* what the checkout form answers: "" when it accepts the three fields
CheckoutResponse(firstName, lastName, zip) ==
    CASE firstName = "" -> FirstNameRequired
      [] lastName = "" -> LastNameRequired
      [] zip = "" -> PostalCodeRequired
      [] OTHER -> ""

\* :has-text("..."): the element's text contains the words, whatever their case
HasText(words, name) ==
    LET lower(w) == [i \in 1..Len(w) |-> ToLowerCase(w[i])]
    IN  \E k \in 0..(Len(words) - Len(name)) :
          SubSeq(lower(words), k + 1, k + Len(name)) = lower(name)

InCart(item, st) == \E i \in 1..Len(st.cart) : st.cart[i] = item

Without(cart, item) == SelectSeq(cart, LAMBDA i : i # item)

Map(items, F(_)) == [i \in 1..Len(items) |-> F(items[i])]

\* the catalog rows, the cart lines and the items a screen lists
Rows(u) == IF u = InventoryUrl THEN Catalog ELSE << >>
Lines(u, st) == IF u \in { CartUrl, CheckoutStepTwoUrl } THEN st.cart ELSE << >>
Listed(u, st) == Rows(u) \o Lines(u, st)

\* the items whose "Add to cart" button the selector resolves to
AddTargets(sel, u, st) ==
    IF \E n \in ItemNames : sel = AddToCartButtonSelector(n)
    THEN LET n == CHOOSE n \in ItemNames : sel = AddToCartButtonSelector(n)
         IN  SelectSeq(Rows(u), LAMBDA i : HasText(i, n) /\ ~InCart(i, st))
    ELSE << >>

\* the items whose "Remove" button the selector resolves to
RemoveTargets(sel, u, st) ==
    SelectSeq(IF u = InventoryUrl THEN Rows(u)
              ELSE IF u = CartUrl THEN Lines(u, st) ELSE << >>,
              LAMBDA i : InCart(i, st) /\ sel = RemoveButtonSelector(i))

\* texts of the visible elements a selector resolves to, in DOM order, on the
\* screen at u with the storage st and the error message msg ("" for none)
Matches(sel, u, st, msg) ==
    LET on(urls, texts) == IF u \in urls THEN texts ELSE << >>
        named(n) == SelectSeq(Listed(u, st), LAMBDA i : HasText(i, n))
    IN  CASE sel = loginLogoSelector -> on({ RootUrl }, << SwagLabs >>)
          [] sel \in { usernameSelector, passwordSelector } -> on({ RootUrl }, << "" >>)
          [] sel = loginButtonSelector -> on({ RootUrl }, << "Login" >>)
          [] sel = LoginPage_errorMessageSelector ->
                IF msg = "" THEN << >> ELSE on({ RootUrl }, << msg >>)
          [] sel = titleSelector -> on(LoggedInUrls, << Title(u) >>)
          [] sel = cartLinkSelector -> on(LoggedInUrls, << "" >>)
          [] sel = cartBadgeSelector ->
                IF st.cart = << >> THEN << >>
                ELSE on(LoggedInUrls, << ToString(Len(st.cart)) >>)
          [] sel = cartItemsSelector -> Map(Lines(u, st), NameText)
          [] sel = itemNameSelector -> Map(Listed(u, st), NameText)
          [] sel = itemPriceSelector ->
                Map(Listed(u, st), LAMBDA i : FormatPrice(Price(i)))
          [] sel = itemQuantitySelector -> Map(Lines(u, st), LAMBDA i : "1")
          [] sel = checkoutButtonSelector -> on({ CartUrl }, << "Checkout" >>)
          [] sel \in { firstNameSelector, lastNameSelector, zipCodeSelector } ->
                on({ CheckoutStepOneUrl }, << "" >>)
          [] sel = continueButtonSelector -> on({ CheckoutStepOneUrl }, << "Continue" >>)
          [] sel = CheckoutPage_errorMessageSelector ->
                IF msg = "" THEN << >> ELSE on({ CheckoutStepOneUrl }, << msg >>)
          [] sel = finishButtonSelector -> on({ CheckoutStepTwoUrl }, << "Finish" >>)
          [] sel = completeHeaderSelector -> on({ CheckoutCompleteUrl }, << ThankYou >>)
          [] sel = completeTextSelector -> on({ CheckoutCompleteUrl }, << Dispatched >>)
          [] \E n \in ItemNames : sel = ItemSelector(n) ->
                LET n == CHOOSE n \in ItemNames : sel = ItemSelector(n)
                IN  Map(SelectSeq(Rows(u), LAMBDA i : HasText(i, n)), NameText)
          [] \E n \in ItemNames : sel = ItemNameSelector(n) ->
                LET n == CHOOSE n \in ItemNames : sel = ItemNameSelector(n)
                IN  Map(named(n), NameText)
          [] \E n \in ItemNames : sel = AddToCartButtonSelector(n) ->
                Map(AddTargets(sel, u, st), LAMBDA i : "Add to cart")
          [] OTHER -> Map(RemoveTargets(sel, u, st), LAMBDA i : "Remove")

Page(u, st, msg) == [sel \in AppSelectors |-> Matches(sel, u, st, msg)]

NoFields == [s \in FieldSelectors |-> ""]

\* the browser once the application has rendered the screen at u
Load(u, st, msg, f) ==
    /\ url' = u
    /\ storage' = st
    /\ field' = f
    /\ dom' = Page(u, st, msg)
    /\ visible' = { sel \in AppSelectors : Page(u, st, msg)[sel] # << >> }
    /\ text' = [sel \in AppSelectors |->
                  IF Page(u, st, msg)[sel] # << >> THEN Page(u, st, msg)[sel][1] ELSE ""]

\* the application's reaction to a click on the one element sel resolves to
React(sel) ==
    CASE url = RootUrl /\ sel = loginButtonSelector ->
            LET msg == LoginResponse(field[usernameSelector], field[passwordSelector])
            IN  IF msg = ""
                THEN Load(InventoryUrl, [storage EXCEPT !.user = field[usernameSelector]],
                          "", NoFields)
                ELSE Load(RootUrl, storage, msg, field)
      [] AddTargets(sel, url, storage) # << >> ->
            Load(url, [storage EXCEPT !.cart = Append(@, AddTargets(sel, url, storage)[1])],
                 "", field)
      [] RemoveTargets(sel, url, storage) # << >> ->
            IF storage.user = ProblemUser /\ url = InventoryUrl
            THEN UNCHANGED << url, storage, field, dom, visible, text >>
            ELSE Load(url, [storage EXCEPT
                              !.cart = Without(@, RemoveTargets(sel, url, storage)[1])],
                      "", field)
      [] url \in LoggedInUrls /\ sel = cartLinkSelector ->
            Load(CartUrl, storage, "", NoFields)
      [] url = CartUrl /\ sel = checkoutButtonSelector ->
            Load(CheckoutStepOneUrl, storage, "", NoFields)
      [] url = CheckoutStepOneUrl /\ sel = continueButtonSelector ->
            LET msg == CheckoutResponse(field[firstNameSelector], field[lastNameSelector],
                                        field[zipCodeSelector])
            IN  IF msg = ""
                THEN Load(CheckoutStepTwoUrl, storage, "", NoFields)
                ELSE Load(CheckoutStepOneUrl, storage, msg, field)
      [] url = CheckoutStepTwoUrl /\ sel = finishButtonSelector ->
            Load(CheckoutCompleteUrl, [storage EXCEPT !.cart = << >>], "", NoFields)
      [] OTHER -> UNCHANGED << url, storage, field, dom, visible, text >>

\* the browser as a call finds it
Snapshot == [url |-> url, field |-> field, dom |-> dom, storage |-> storage]

\* a fresh page, before the first navigation
AppInit ==
    /\ url = AboutBlank
    /\ storage = NoStorage
    /\ field = NoFields
    /\ dom = Page(AboutBlank, NoStorage, "")
    /\ visible = { }
    /\ text = [sel \in AppSelectors |-> ""]
    /\ call = BlankCall
    /\ pc = 0
    /\ trace = << >>
    /\ result = NoResult
    /\ ncalls = 0
    /\ before = NoSnapshot
    /\ chunk = NoChunk
    /\ debounced = NoDebounced
    /\ poll = NoPoll

\* the test calls a method of one of its page objects
AppCall(c) ==
    /\ pc = 0
    /\ call' = c
    /\ pc' = 1
    /\ trace' = << >>
    /\ result' = [NoResult EXCEPT !.status = "pending"]
    /\ before' = Snapshot
    /\ UNCHANGED << visible, text, field, url, dom, storage, ncalls >>
    /\ UNCHANGED helpers

\* what the driver reports when a locator does not resolve to one element
Unresolved(sel) == IF dom[sel] = << >> THEN "hidden" ELSE "strict mode violation"

\* expect(locator).toBeVisible on the settled page
App_ToBeVisible ==
    /\ At("toBeVisible")
    /\ LET ok == Len(dom[Step.selector]) = 1
       IN  /\ trace' = Append(trace, Issued(ok))
           /\ Await(Thrown(ok, url, Unresolved(Step.selector)), << >>)
    /\ UNCHANGED << visible, text, field, url, dom, storage, call, ncalls, before >>
    /\ UNCHANGED helpers

\* expect(locator).not.toBeVisible on the settled page
App_NotToBeVisible ==
    /\ At("notToBeVisible")
    /\ LET ok == dom[Step.selector] = << >>
       IN  /\ trace' = Append(trace, Issued(ok))
           /\ Await(Thrown(ok, url, IF Len(dom[Step.selector]) = 1 THEN "visible"
                                    ELSE "strict mode violation"), << >>)
    /\ UNCHANGED << visible, text, field, url, dom, storage, call, ncalls, before >>
    /\ UNCHANGED helpers

\* expect(locator).toHaveText on the settled page
App_ToHaveText ==
    /\ At("toHaveText")
    /\ LET ok == dom[Step.selector] = << Step.text >>
       IN  /\ trace' = Append(trace, Issued(ok))
           /\ Await(Thrown(ok, url, IF Len(dom[Step.selector]) = 1
                                    THEN dom[Step.selector][1]
                                    ELSE Unresolved(Step.selector)), << >>)
    /\ UNCHANGED << visible, text, field, url, dom, storage, call, ncalls, before >>
    /\ UNCHANGED helpers

\* expect(locator).toHaveCount on the settled page
App_ToHaveCount ==
    /\ At("toHaveCount")
    /\ LET ok == Len(dom[Step.selector]) = Step.count
       IN  /\ trace' = Append(trace, Issued(ok))
           /\ Await(Thrown(ok, url, ToString(Len(dom[Step.selector]))), << >>)
    /\ UNCHANGED << visible, text, field, url, dom, storage, call, ncalls, before >>
    /\ UNCHANGED helpers

\* locator.click: the click lands on the one element and the application reacts
App_Click ==
    /\ At("click")
    /\ LET ok == Len(dom[Step.selector]) = 1
       IN  /\ IF ok THEN React(Step.selector)
              ELSE UNCHANGED << url, storage, field, dom, visible, text >>
           /\ trace' = Append(trace, Issued(ok))
           /\ Await(Thrown(ok, url, Unresolved(Step.selector)), << >>)
    /\ UNCHANGED << call, ncalls, before >>
    /\ UNCHANGED helpers

\* locator.fill: sets the content of the one input the selector resolves to
App_Fill ==
    /\ At("fill")
    /\ LET ok == Len(dom[Step.selector]) = 1 /\ Step.selector \in FieldSelectors
       IN  /\ field' = IF ok THEN [field EXCEPT ![Step.selector] = Step.value] ELSE field
           /\ trace' = Append(trace, Issued(ok))
           /\ Await(Thrown(ok, url, Unresolved(Step.selector)), << >>)
    /\ UNCHANGED << visible, text, url, dom, storage, call, ncalls, before >>
    /\ UNCHANGED helpers

\* expect(page).toHaveURL(regexp) on the settled page
App_ToHaveURL ==
    /\ At("toHaveURL")
    /\ trace' = Append(trace, Issued(RegExpTest(Step.pattern, url)))
    /\ Await(Thrown(RegExpTest(Step.pattern, url), url, "url"), << >>)
    /\ UNCHANGED << visible, text, field, url, dom, storage, call, ncalls, before >>
    /\ UNCHANGED helpers

\* page.url(): the value the next statement compares with
App_PageUrl ==
    /\ At("url")
    /\ trace' = Append(trace, [Issued(TRUE) EXCEPT !.pattern = url])
    /\ Await(<< >>, << >>)
    /\ UNCHANGED << visible, text, field, url, dom, storage, call, ncalls, before >>
    /\ UNCHANGED helpers

\* expect(page).toHaveURL(currentUrl) on the settled page
App_ToHaveURLString ==
    /\ At("toHaveURL(string)")
    /\ LET ok == trace # << >> /\ trace[Len(trace)].pattern = url
       IN  /\ trace' = Append(trace, Issued(ok))
           /\ Await(Thrown(ok, url, "url"), << >>)
    /\ UNCHANGED << visible, text, field, url, dom, storage, call, ncalls, before >>
    /\ UNCHANGED helpers

\* page.goto: the application serves the screen at the target
App_Goto ==
    /\ At("goto")
    /\ Load(Step.pattern, storage, "", NoFields)
    /\ trace' = Append(trace, Issued(TRUE))
    /\ Await(<< >>, << >>)
    /\ UNCHANGED << call, ncalls, before >>
    /\ UNCHANGED helpers

AppNext ==
    \/ \E c \in AppCalls : AppCall(c)
    \/ App_ToBeVisible
    \/ App_NotToBeVisible
    \/ App_ToHaveText
    \/ App_ToHaveCount
    \/ App_Click
    \/ App_Fill
    \/ NewRegExp
    \/ App_ToHaveURL
    \/ App_PageUrl
    \/ App_ToHaveURLString
    \/ App_Goto

AppSpec == AppInit /\ [][AppNext]_vars

\* checkout.test.ts: beforeEach, then the steps of 'should display order
\* summary' and 'should complete checkout'; each step is the set of calls the
\* test may make at that point
RoundTrip ==
    << { [BlankCall EXCEPT !.page = "LoginPage", !.method = "navigate"] },
       { [BlankCall EXCEPT !.page = "LoginPage", !.method = "login",
                           !.a = u[1], !.b = u[2]] : u \in ValidUsers },
       { [BlankCall EXCEPT !.page = "InventoryPage", !.method = "assertInventoryPage"] },
       { [BlankCall EXCEPT !.page = "CartPage", !.method = "addItemToCart",
                           !.itemName = Backpack] },
       { [BlankCall EXCEPT !.page = "CartPage", !.method = "goToCart"] },
       { [BlankCall EXCEPT !.page = "CartPage", !.method = "proceedToCheckout"] },
       { [BlankCall EXCEPT !.page = "CheckoutPage", !.method = "fillCheckoutInfo",
                           !.a = "John", !.b = "Doe", !.c = "12345"] },
       { [BlankCall EXCEPT !.page = "CheckoutPage", !.method = "assertOrderSummary",
                           !.itemName = Backpack, !.price = BackpackPrice,
                           !.text = "1"] },
       { [BlankCall EXCEPT !.page = "CheckoutPage", !.method = "finishCheckout"] },
       { [BlankCall EXCEPT !.page = "CheckoutPage",
                           !.method = "assertOrderConfirmation"] } >>

\* the test awaits its next step; a step that threw has ended the test
RoundTripCall ==
    /\ pc = 0
    /\ ncalls < Len(RoundTrip)
    /\ result.status # "failed"
    /\ \E c \in RoundTrip[ncalls + 1] : call' = c
    /\ ncalls' = ncalls + 1
    /\ pc' = 1
    /\ trace' = << >>
    /\ result' = [NoResult EXCEPT !.status = "pending"]
    /\ before' = Snapshot
    /\ UNCHANGED << visible, text, field, url, dom, storage >>
    /\ UNCHANGED helpers

RoundTripNext ==
    \/ RoundTripCall
    \/ App_Goto
    \/ App_ToBeVisible
    \/ App_Fill
    \/ App_Click
    \/ App_ToHaveText

\* the runner keeps the test going until it has ended
RoundTripSpec == AppInit /\ [][RoundTripNext]_vars /\ WF_vars(RoundTripNext)

-----------------------------------------------------------------------------
(* CheckoutPage.assertCheckoutPage / assertOverviewPage on a browser whose   *)
(* navigation may still be completing                                         *)

NavigationCalls ==
    { [BlankCall EXCEPT !.page = "CheckoutPage", !.method = m]
        : m \in { "assertCheckoutPage", "assertOverviewPage" } }

\* the navigation started by an earlier click commits: the address changes
\* while the test goes on
NavigationCommits ==
    /\ \E u \in Urls \ { url } : url' = u
    /\ UNCHANGED << visible, text, field, dom, call, pc, trace, result, ncalls >>
    /\ UNCHANGED << storage, before, helpers >>

\* const currentUrl = this.page.url(): the address at this instant
PageUrl ==
    /\ At("url")
    /\ trace' = Append(trace, [Issued(TRUE) EXCEPT !.pattern = url])
    /\ Await(<< >>, << >>)
    /\ UNCHANGED << visible, text, field, url, dom, call, ncalls >>
    /\ UNCHANGED << storage, before, helpers >>

\* expect(page).toHaveURL(currentUrl): passes when the address is the string
\* read by the statement before, fails when the poll ends on another address
ToHaveURLString ==
    /\ At("toHaveURL(string)")
    /\ LET ok == trace # << >> /\ trace[Len(trace)].pattern = url
       IN  /\ trace' = Append(trace, Issued(ok))
           /\ Await(Thrown(ok, url, "url"), << >>)
    /\ UNCHANGED << visible, text, field, url, dom, call, ncalls >>
    /\ UNCHANGED << storage, before, helpers >>

NavigationNext ==
    \/ \E c \in NavigationCalls : Call(c)
    \/ NavigationCommits
    \/ PageUrl
    \/ ToHaveURLString
    \/ ToHaveText

NavigationSpec == Init /\ [][NavigationNext]_vars

-----------------------------------------------------------------------------
(* utils/helpers.ts: chunkArray *)

MaxLen == 3     \* elements of the array passed to chunkArray

\* loop iterations followed; a call that advances makes at most Len(array)
MaxChunks == MaxLen + 1

Elements == { "a", "b" }

Arrays == UNION { [1..n -> Elements] : n \in 0..MaxLen }

\* integer sizes: negative, zero, within the array, beyond it
Sizes == (0 - 1)..(MaxLen + 1)

Min(a, b) == IF a < b THEN a ELSE b
Max(a, b) == IF a > b THEN a ELSE b

\* Array.prototype.slice(start, end): a negative index counts from the end,
\* both are clamped to the array, and an end at or before the start gives []
Slice(array, start, end) ==
    LET n == Len(array)
        from == IF start < 0 THEN Max(n + start, 0) ELSE Min(start, n)
        to == IF end < 0 THEN Max(n + end, 0) ELSE Min(end, n)
    IN  SubSeq(array, from + 1, to)

\* chunkArray(array, size) is called: result = [], i = 0
ChunkInit ==
    /\ PageInit
    /\ debounced = NoDebounced
    /\ poll = NoPoll
    /\ \E array \in Arrays, size \in Sizes :
         chunk = [array |-> array, size |-> size, i |-> 0, result |-> << >>,
                  status |-> "running", turn |-> 0]

\* i < array.length: result.push(array.slice(i, i + size)); i += size.
\* A loop that has pushed MaxChunks chunks with i still inside the array goes
\* on turning; its further chunks and values of i are not kept, only that it
\* has made another turn.
ChunkPush ==
    /\ chunk.status = "running"
    /\ chunk.i < Len(chunk.array)
    /\ chunk' = IF Len(chunk.result) < MaxChunks
                THEN [chunk EXCEPT
                        !.result = Append(@, Slice(chunk.array, chunk.i,
                                                   chunk.i + chunk.size)),
                        !.i = @ + chunk.size]
                ELSE [chunk EXCEPT !.turn = 1 - @]
    /\ UNCHANGED << visible, text, field, url, dom, call, pc, trace, result, ncalls,
                    storage, before, debounced, poll >>

\* the loop condition fails: return result
ChunkReturn ==
    /\ chunk.status = "running"
    /\ ~(chunk.i < Len(chunk.array))
    /\ chunk' = [chunk EXCEPT !.status = "returned"]
    /\ UNCHANGED << visible, text, field, url, dom, call, pc, trace, result, ncalls,
                    storage, before, debounced, poll >>

ChunkNext == ChunkPush \/ ChunkReturn

\* the call runs on: nothing suspends a synchronous loop
ChunkSpec == ChunkInit /\ [][ChunkNext]_vars /\ WF_vars(ChunkNext)

-----------------------------------------------------------------------------
(* utils/helpers.ts: debounce.  `timeout` is the closure's handle (0 while   *)
(* undefined), `timers` the timers the event loop holds, `calls` and         *)
(* `invoked` the calls of the returned function and of func so far.          *)

MaxWait == 2             \* largest wait passed to debounce
MaxTime == 3             \* last instant at which the returned function is called
MaxDebouncedCalls == 3   \* calls of the returned function

Args == { "x", "y" }

\* const debounced = debounce(func, wait): let timeout, still undefined
DebounceInit ==
    /\ PageInit
    /\ chunk = NoChunk
    /\ poll = NoPoll
    /\ \E wait \in 0..MaxWait : debounced = [NoDebounced EXCEPT !.wait = wait]

\* debounced(...args) with the earlier timer left running
DebouncedCall_NoClear(args) ==
    /\ Len(debounced.calls) < MaxDebouncedCalls
    /\ debounced.now <= MaxTime
    /\ LET id == Len(debounced.calls) + 1
       IN  debounced' =
             [debounced EXCEPT
                !.timers = @ \cup { [id |-> id, due |-> debounced.now + debounced.wait,
                                     args |-> args] },
                !.timeout = id,
                !.calls = Append(@, [at |-> debounced.now, args |-> args])]
    /\ UNCHANGED << visible, text, field, url, dom, call, pc, trace, result, ncalls,
                    storage, before, chunk, poll >>

\* debounced(...args): clearTimeout(timeout);
\* timeout = setTimeout(() => func(...args), wait)
DebouncedCall(args) ==
    /\ Len(debounced.calls) < MaxDebouncedCalls
    /\ debounced.now <= MaxTime
    /\ LET id == Len(debounced.calls) + 1
           cleared == { t \in debounced.timers : t.id # debounced.timeout }
       IN  debounced' =
             [debounced EXCEPT
                !.timers = cleared \cup { [id |-> id, due |-> debounced.now + debounced.wait,
                                           args |-> args] },
                !.timeout = id,
                !.calls = Append(@, [at |-> debounced.now, args |-> args])]
    /\ UNCHANGED << visible, text, field, url, dom, call, pc, trace, result, ncalls,
                    storage, before, chunk, poll >>

\* time passes; the event loop may run a due timer late
Tick ==
    /\ debounced.now < MaxTime + debounced.wait
    /\ debounced' = [debounced EXCEPT !.now = @ + 1]
    /\ UNCHANGED << visible, text, field, url, dom, call, pc, trace, result, ncalls,
                    storage, before, chunk, poll >>

\* the event loop runs a timer that is due: () => func(...args)
TimerFires ==
    /\ \E t \in debounced.timers :
         /\ t.due <= debounced.now
         /\ debounced' =
               [debounced EXCEPT
                  !.timers = @ \ { t },
                  !.invoked = Append(@, [at |-> debounced.now, args |-> t.args,
                                         after |-> Len(debounced.calls)])]
    /\ UNCHANGED << visible, text, field, url, dom, call, pc, trace, result, ncalls,
                    storage, before, chunk, poll >>

DebounceNext ==
    \/ \E args \in Args : DebouncedCall(args)
    \/ Tick
    \/ TimerFires

\* time passes and the event loop runs the timers that are due
DebounceSpec ==
    DebounceInit /\ [][DebounceNext]_vars /\ WF_vars(Tick) /\ WF_vars(TimerFires)

-----------------------------------------------------------------------------
(* One expectation against the clock.  The screen changes once, at the      *)
(* instant `shown`: the element the expectation looks at appears then with   *)
(* the expected text (`appears`), or is on screen until then and gone from   *)
(* then on.  The expectation polls from instant 0 until it sees what it      *)
(* waits for or its timeout ends.  Times are milliseconds.                   *)

\* utils/configs.ts: the configured default timeout
ConfigTimeout == 30000

\* the driver's own expect timeout, used when none is configured
ExpectTimeout == 5000

\* the default a { timeout: undefined } falls back to: the driver's own, or the
\* configured one where the runner is set up from utils/configs.ts
DefaultTimeouts == { ExpectTimeout, ConfigTimeout }

Instants == { 0, 2500, 5000, 7500, 10000, 12500, 30000, 32500 }

Later(t) == CHOOSE u \in Instants : u > t /\ \A v \in Instants : v > t => u <= v

\* assertions that are one expectation
TimedCalls ==
    { [BlankCall EXCEPT !.page = "CartPage", !.method = "assertCartItemCount",
                        !.count = 1],
      [BlankCall EXCEPT !.page = "CartPage", !.method = "assertCartPage"],
      [BlankCall EXCEPT !.page = "InventoryPage",
                        !.method = "assertItemNotInSearchResults",
                        !.itemName = Backpack] }
    \cup { [BlankCall EXCEPT !.page = "BasePage", !.method = "assertElementText",
                             !.selector = cartBadgeSelector, !.text = "1",
                             !.timeout = t] : t \in { Undefined, ExtendedTimeout } }

\* the timeout the expectation of call c runs with
Window(c, default) ==
    IF Program(c)[1].timeout = Undefined THEN default ELSE Program(c)[1].timeout

PollInit ==
    /\ PageInit
    /\ chunk = NoChunk
    /\ debounced = NoDebounced
    /\ \E default \in DefaultTimeouts, c \in TimedCalls, shown \in Instants,
          appears \in BOOLEAN :
         poll = [default |-> default, call |-> c, shown |-> shown,
                 appears |-> appears, now |-> 0, status |-> "polling"]

\* the element is on screen at instant t
Present(t) == IF poll.appears THEN poll.shown <= t ELSE t < poll.shown

\* the expectation sees at instant t what it waits for: not.toBeVisible no
\* visible element, the others the element with the expected text
Holds(t) ==
    IF Program(poll.call)[1].op = "notToBeVisible" THEN ~Present(t) ELSE Present(t)

\* the poll sees what it waits for within its timeout
PollPasses ==
    /\ poll.status = "polling"
    /\ Holds(poll.now)
    /\ poll.now <= Window(poll.call, poll.default)
    /\ poll' = [poll EXCEPT !.status = "passed"]
    /\ UNCHANGED << visible, text, field, url, dom, call, pc, trace, result, ncalls,
                    storage, before, chunk, debounced >>

\* the timeout ends without the poll having seen it
PollExpires ==
    /\ poll.status = "polling"
    /\ ~Holds(poll.now)
    /\ poll.now >= Window(poll.call, poll.default)
    /\ poll' = [poll EXCEPT !.status = "failed"]
    /\ UNCHANGED << visible, text, field, url, dom, call, pc, trace, result, ncalls,
                    storage, before, chunk, debounced >>

\* not seen and time is left: the poll retries later
PollRetries ==
    /\ poll.status = "polling"
    /\ ~Holds(poll.now)
    /\ poll.now < Window(poll.call, poll.default)
    /\ poll' = [poll EXCEPT !.now = Later(poll.now)]
    /\ UNCHANGED << visible, text, field, url, dom, call, pc, trace, result, ncalls,
                    storage, before, chunk, debounced >>

PollNext == PollPasses \/ PollExpires \/ PollRetries

PollSpec == PollInit /\ [][PollNext]_vars

-----------------------------------------------------------------------------
(* InventoryPage.verifyItemDescriptions / verifyItemPrices on a settled      *)
(* listing: `dom` holds, per selector, the texts of the elements on screen   *)

MaxItems == 2   \* items on screen, and items in the expected list

BikeLightDescription == "A red light isn't the desired state in testing"

\* the characters of a price as the screen shows it
Chars29_99 == << "$", "2", "9", ".", "9", "9" >>
Chars9_99 == << "$", "9", ".", "9", "9" >>

\* what a listing may show for an item: the fixture's values, another item's
\* description, a price without the symbol, with a trailing zero, with two
\* symbols, with a thousands separator
ScreenItems ==
    { [name |-> NameText(Backpack), description |-> BackpackDescription,
       price |-> Chars29_99],
      [name |-> NameText(BikeLight), description |-> BikeLightDescription,
       price |-> Chars9_99],
      [name |-> NameText(Backpack), description |-> BikeLightDescription,
       price |-> Tail(Chars29_99)],
      [name |-> NameText(BikeLight), description |-> BikeLightDescription,
       price |-> Chars9_99 \o << "0" >>],
      [name |-> NameText(BikeLight), description |-> BikeLightDescription,
       price |-> << "$" >> \o Chars9_99],
      [name |-> NameText(Backpack), description |-> BackpackDescription,
       price |-> << "$", "2", ",", "9", "9", "9" >>] }

\* fixtures/products.ts: the items a test expects
ExpectedItems ==
    { [name |-> NameText(Backpack), description |-> BackpackDescription,
       price |-> BackpackPrice],
      [name |-> NameText(BikeLight), description |-> BikeLightDescription,
       price |-> BikeLightPrice] }

ListsOf(S) == UNION { [1..n -> S] : n \in 0..MaxItems }

ListingCalls ==
    { [BlankCall EXCEPT !.page = "InventoryPage", !.method = m, !.items = e]
        : m \in { "verifyItemDescriptions", "verifyItemPrices" },
          e \in ListsOf(ExpectedItems) }

ListingSelectors == { itemNameSelector, itemDescriptionSelector, itemPriceSelector }

\* the texts the elements matching sel show, in document order
Listing(screen) ==
    [sel \in ListingSelectors |->
       [i \in 1..Len(screen) |->
          CASE sel = itemNameSelector -> screen[i].name
            [] sel = itemDescriptionSelector -> screen[i].description
            [] OTHER -> screen[i].price]]

ListingInit ==
    /\ visible = { }
    /\ text = [s \in TextSelectors |-> ""]
    /\ field = [s \in FieldSelectors |-> ""]
    /\ url = InventoryUrl
    /\ \E screen \in ListsOf(ScreenItems) : dom = Listing(screen)
    /\ call = BlankCall
    /\ pc = 0
    /\ trace = << >>
    /\ result = NoResult
    /\ ncalls = 0
    /\ storage = NoStorage
    /\ before = NoSnapshot
    /\ chunk = NoChunk
    /\ debounced = NoDebounced
    /\ poll = NoPoll

\* locator.allTextContents: the texts on screen now, kept in the local the
\* method assigns them to
Listing_AllTextContents ==
    /\ At("allTextContents")
    /\ \E ok \in BOOLEAN :
         /\ trace' = Append(trace, [Issued(ok) EXCEPT !.pattern = dom[Step.selector]])
         /\ Await(Thrown(ok, url, "closed"), << >>)
    /\ UNCHANGED << visible, text, field, url, dom, call, ncalls >>
    /\ UNCHANGED << storage, before, helpers >>

\* the locals of verifyItemDescriptions / verifyItemPrices
Local(name) ==
    CASE name = "itemNames" -> trace[1].pattern
      [] name = "formattedPrices" ->
            [i \in 1..Len(trace[2].pattern) |->
               ParseFloat(ReplaceDollar(trace[2].pattern[i]))]
      [] OTHER -> trace[2].pattern

\* expect(received).toEqual(expected): arrays are equal when they have the
\* same length and equal elements at every index; no polling
ToEqual ==
    /\ At("toEqual")
    /\ Await(Thrown(Local(Step.value) = Step.pattern, url, "unequal"), << >>)
    /\ UNCHANGED << visible, text, field, url, dom, call, trace, ncalls >>
    /\ UNCHANGED << storage, before, helpers >>

ListingNext ==
    \/ \E c \in ListingCalls : Call(c)
    \/ Listing_AllTextContents
    \/ ToEqual

ListingSpec == ListingInit /\ [][ListingNext]_vars

-----------------------------------------------------------------------------
(* The catalog the InventoryPage suite drives, after its beforeEach has      *)
(* logged in: the listing with its sort control and free-text filter, and    *)
(* the detail view of an item.  `storage` holds the sort option in force,    *)
(* the words filtered by and the item whose detail view is open.             *)

BoltTShirt == << "Sauce", "Labs", "Bolt", "T-Shirt" >>
BoltTShirtPrice == 1599    \* 15.99, in cents
BoltTShirtDescription == "Get your testing superhero on with the Sauce Labs bolt T-shirt"

\* fixtures/products.ts, in the order the catalog lists them by default, which
\* is the alphabetical order of the names
CatalogItems == Catalog \o << BoltTShirt >>

CatalogSet == { CatalogItems[i] : i \in 1..Len(CatalogItems) }

NonExistentProduct == << "Non-existent", "Product" >>

CatalogPrice(item) == IF item = BoltTShirt THEN BoltTShirtPrice ELSE Price(item)

Description(item) ==
    CASE item = Backpack -> BackpackDescription
      [] item = BikeLight -> BikeLightDescription
      [] OTHER -> BoltTShirtDescription

NameAtoZ == "Name (A to Z)"
NameZtoA == "Name (Z to A)"
PriceLowToHigh == "Price (low to high)"
PriceHighToLow == "Price (high to low)"

SortOptions == { NameAtoZ, NameZtoA, PriceLowToHigh, PriceHighToLow }

DefaultView == [sort |-> NameAtoZ, query |-> << >>, item |-> << >>]

\* position of the item in alphabetical order
Rank(item) == CHOOSE i \in 1..Len(CatalogItems) : CatalogItems[i] = item

\* what an option orders by, smallest first
SortKey(option, item) ==
    CASE option = NameAtoZ -> Rank(item)
      [] option = NameZtoA -> 0 - Rank(item)
      [] option = PriceLowToHigh -> CatalogPrice(item)
      [] OTHER -> 0 - CatalogPrice(item)

RECURSIVE Sorted(_, _)
Sorted(items, option) ==
    IF items = << >> THEN << >>
    ELSE LET m == CHOOSE i \in 1..Len(items) :
                    \A j \in 1..Len(items) :
                       \/ SortKey(option, items[i]) < SortKey(option, items[j])
                       \/ (SortKey(option, items[i]) = SortKey(option, items[j]) /\ i <= j)
         IN  << items[m] >>
                \o Sorted(SubSeq(items, 1, m - 1) \o SubSeq(items, m + 1, Len(items)),
                          option)

\* the items the listing shows: those whose name has the words filtered by,
\* in the order of the sort option
View(st) ==
    IF st.item # << >> THEN << >>
    ELSE Sorted(SelectSeq(CatalogItems, LAMBDA i : HasText(i, st.query)), st.sort)

CatalogCalls ==
    { [BlankCall EXCEPT !.page = "InventoryPage", !.method = m]
        : m \in { "assertInventoryPage", "backToProducts" } }
    \cup { [BlankCall EXCEPT !.page = "InventoryPage", !.method = m, !.itemName = n]
             : m \in { "searchItemExistsInInventory", "searchItem",
                       "assertItemInSearchResults", "assertItemNotInSearchResults",
                       "clickOnInventoryItem" },
               n \in CatalogSet \cup { NonExistentProduct } }
    \cup { [BlankCall EXCEPT !.page = "InventoryPage",
                             !.method = "selectProductSortOption", !.text = o]
             : o \in SortOptions \cup { "Price (ascending)" } }
    \cup { [BlankCall EXCEPT !.page = "InventoryPage",
                             !.method = "verifyFirstItemInList", !.itemName = n]
             : n \in CatalogSet }
    \cup { [BlankCall EXCEPT !.page = "InventoryPage",
                             !.method = "verifyFirstItemPrice", !.price = CatalogPrice(n)]
             : n \in CatalogSet }
    \cup { [BlankCall EXCEPT !.page = "InventoryPage", !.method = "verifyItemDetails",
                             !.itemName = n, !.text = Description(n),
                             !.price = CatalogPrice(n)] : n \in CatalogSet }

\* every selector the calls hand to the driver, and the listing's two columns
CatalogSelectors ==
    UNION { { Program(c)[i].selector : i \in 1..Len(Program(c)) } : c \in CatalogCalls }
        \cup { itemNameSelector, itemPriceSelector }

FirstOf(texts) == IF texts = << >> THEN << >> ELSE << texts[1] >>

\* texts of the visible elements a selector resolves to, in DOM order
CatalogMatches(sel, st) ==
    LET listing == st.item = << >>
        on(shown, texts) == IF shown THEN texts ELSE << >>
        names == Map(View(st), NameText)
        prices == Map(View(st), LAMBDA i : FormatPrice(CatalogPrice(i)))
    IN  CASE sel = titleSelector -> on(listing, << Products >>)
          [] sel = searchInputSelector -> on(listing, << "" >>)
          [] sel = sortDropdownSelector -> on(listing, << st.sort >>)
          [] sel = itemNameSelector -> names
          [] sel = First(itemNameSelector) -> FirstOf(names)
          [] sel = itemPriceSelector -> prices
          [] sel = First(itemPriceSelector) -> FirstOf(prices)
          [] sel = backToProductsButtonSelector -> on(~listing, << "Back to products" >>)
          [] sel = itemDetailsNameSelector -> on(~listing, << NameText(st.item) >>)
          [] sel = itemDetailsDescSelector -> on(~listing, << Description(st.item) >>)
          [] sel = itemDetailsPriceSelector ->
                on(~listing, << FormatPrice(CatalogPrice(st.item)) >>)
          [] OTHER ->
                LET n == CHOOSE n \in CatalogSet \cup { NonExistentProduct }
                            : sel = ItemNameSelector(n)
                IN  Map(SelectSeq(View(st), LAMBDA i : HasText(i, n)), NameText)

CatalogPage(st) == [sel \in CatalogSelectors |-> CatalogMatches(sel, st)]

\* the browser once the application has rendered the view st
CatalogLoad(st, f) ==
    /\ storage' = st
    /\ field' = f
    /\ dom' = CatalogPage(st)
    /\ visible' = { sel \in CatalogSelectors : CatalogPage(st)[sel] # << >> }
    /\ text' = [sel \in CatalogSelectors |->
                  IF CatalogPage(st)[sel] # << >> THEN CatalogPage(st)[sel][1] ELSE ""]

NoSearch == [s \in { searchInputSelector } |-> << >>]

\* the application's reaction to a click on the one element sel resolves to:
\* a name opens the item's detail view; "Back to products" returns to the
\* listing in its default view
CatalogReact(sel) ==
    IF sel = backToProductsButtonSelector THEN CatalogLoad(DefaultView, NoSearch)
    ELSE IF storage.item = << >> /\ sel \notin { titleSelector, searchInputSelector,
                                                  sortDropdownSelector }
    THEN LET n == CHOOSE n \in CatalogSet : dom[sel] = << NameText(n) >>
         IN  CatalogLoad([storage EXCEPT !.item = n], NoSearch)
    ELSE UNCHANGED << storage, field, dom, visible, text >>

\* the suite's beforeEach has logged in: the listing in its default view
CatalogInit ==
    /\ url = InventoryUrl
    /\ storage = DefaultView
    /\ field = NoSearch
    /\ dom = CatalogPage(DefaultView)
    /\ visible = { sel \in CatalogSelectors : CatalogPage(DefaultView)[sel] # << >> }
    /\ text = [sel \in CatalogSelectors |->
                 IF CatalogPage(DefaultView)[sel] # << >>
                 THEN CatalogPage(DefaultView)[sel][1] ELSE ""]
    /\ call = BlankCall
    /\ pc = 0
    /\ trace = << >>
    /\ result = NoResult
    /\ ncalls = 0
    /\ before = NoSnapshot
    /\ chunk = NoChunk
    /\ debounced = NoDebounced
    /\ poll = NoPoll

\* locator.click: the click lands on the one element and the application reacts
Catalog_Click ==
    /\ At("click")
    /\ LET ok == Len(dom[Step.selector]) = 1
       IN  /\ IF ok THEN CatalogReact(Step.selector)
              ELSE UNCHANGED << storage, field, dom, visible, text >>
           /\ trace' = Append(trace, Issued(ok))
           /\ Await(Thrown(ok, url, Unresolved(Step.selector)), << >>)
    /\ UNCHANGED << url, call, ncalls, before >>
    /\ UNCHANGED helpers

\* locator.fill on the search input
Catalog_Fill ==
    /\ At("fill")
    /\ LET ok == Len(dom[Step.selector]) = 1
       IN  /\ field' = IF ok THEN [field EXCEPT ![Step.selector] = Step.value] ELSE field
           /\ trace' = Append(trace, Issued(ok))
           /\ Await(Thrown(ok, url, Unresolved(Step.selector)), << >>)
    /\ UNCHANGED << visible, text, url, dom, storage, call, ncalls, before >>
    /\ UNCHANGED helpers

\* locator.press('Enter') on the search input: the listing is filtered by the
\* words typed
Catalog_Press ==
    /\ At("press")
    /\ LET ok == Len(dom[Step.selector]) = 1
       IN  /\ IF ok THEN CatalogLoad([storage EXCEPT !.query = field[Step.selector]], field)
              ELSE UNCHANGED << storage, field, dom, visible, text >>
           /\ trace' = Append(trace, Issued(ok))
           /\ Await(Thrown(ok, url, Unresolved(Step.selector)), << >>)
    /\ UNCHANGED << url, call, ncalls, before >>
    /\ UNCHANGED helpers

\* locator.selectOption(option): selects the option with that label and the
\* listing is sorted by it; the driver waits for an option it does not find
\* and gives up with its own error
Catalog_SelectOption ==
    /\ At("selectOption")
    /\ LET there == Len(dom[Step.selector]) = 1
           ok == there /\ Step.value \in SortOptions
       IN  /\ IF ok THEN CatalogLoad([storage EXCEPT !.sort = Step.value], field)
              ELSE UNCHANGED << storage, field, dom, visible, text >>
           /\ trace' = Append(trace, Issued(ok))
           /\ Await(Thrown(ok, url, IF there THEN "did not find some options"
                                    ELSE Unresolved(Step.selector)), << >>)
    /\ UNCHANGED << url, call, ncalls, before >>
    /\ UNCHANGED helpers

CatalogNext ==
    \/ \E c \in CatalogCalls : AppCall(c)
    \/ App_ToBeVisible
    \/ App_NotToBeVisible
    \/ App_ToHaveText
    \/ Catalog_Click
    \/ Catalog_Fill
    \/ Catalog_Press
    \/ Catalog_SelectOption

CatalogSpec == CatalogInit /\ [][CatalogNext]_vars

-----------------------------------------------------------------------------
(* Properties *)

Done == pc = 0 /\ result.status \in { "passed", "failed" }
Passed == pc = 0 /\ result.status = "passed"
Failed == pc = 0 /\ result.status = "failed"

IsAction(e) == e.op \in { "click", "fill" }
IsRead(e) == e.op \in { "toHaveText", "allTextContents" }
IsWait(e) == e.op = "toBeVisible"

\* the call observed the selector of its i-th driver operation visible before it
ObservedVisibleBefore(i) ==
    \E j \in 1..(i - 1) :
        IsWait(trace[j]) /\ trace[j].selector = trace[i].selector /\ trace[j].ok

IsPrefix(p, q) == Len(p) <= Len(q) /\ SubSeq(q, 1, Len(p)) = p

\* the clicks and fills of the call, as (operation, selector, value)
Actions ==
    LET acts == SelectSeq(trace, IsAction)
    IN  [i \in 1..Len(acts) |-> << acts[i].op, acts[i].selector, acts[i].value >>]

C2_CallOrder ==
    LET expected ==
            IF call.method = "login"
            THEN << << "fill", "#user-name", call.a >>, << "fill", "#password", call.b >>,
                    << "click", "#login-button", "" >> >>
            ELSE << << "fill", "#first-name", call.a >>, << "fill", "#last-name", call.b >>,
                    << "fill", "#postal-code", call.c >>, << "click", "#continue", "" >> >>
    IN  call.method \in { "login", "fillCheckoutInfo" } =>
            /\ IsPrefix(Actions, expected)
            /\ Passed => Actions = expected
            /\ \A i \in 1..(Len(trace) - 1) : trace[i].ok

C2_Witness ==
    /\ call.page = "LoginPage" /\ call.method = "login"
    /\ Passed
    /\ Len(Actions) = 3

\* C3: a failed driver operation is the last one the call issues and the call
\* ends in failure, without a value; a call that passes has had every driver
\* operation succeed.
C3_FailuresPropagate ==
    /\ \A i \in 1..Len(trace) : ~trace[i].ok => (i = Len(trace) /\ Failed)
    /\ Failed => result.error # << >> /\ result.value = BlankValue

C3_Witness ==
    /\ call.page = "CheckoutPage" /\ call.method = "fillCheckoutInfo"
    /\ Failed
    /\ Len(trace) = 4 /\ trace[4].op = "fill" /\ ~trace[4].ok

\* C4: one clickElement or fillField call issues at most one click or fill,
\* none when the visibility wait failed, and waits only once.
C4_NoRetry ==
    call.method \in { "clickElement", "fillField", "finishCheckout" } =>
        /\ Len(SelectSeq(trace, IsAction)) <= 1
        /\ Len(SelectSeq(trace, IsWait)) <= 1
        /\ (trace # << >> /\ IsWait(trace[1]) /\ ~trace[1].ok) => Len(trace) = 1

C4_Witness ==
    /\ call.method = "clickElement"
    /\ Failed
    /\ Len(trace) = 2 /\ trace[2].op = "click" /\ ~trace[2].ok

\* the label of the timeout in force, as C5 states it
TimeoutInForce(timeout) ==
    IF timeout = Undefined THEN "default" ELSE ToString(timeout)

\* C5 as stated: waitForElement returns the locator only if the element is
\* visible, and otherwise fails with an ElementNotVisible error carrying the
\* selector and the timeout in force: the caller's override when one was
\* passed, 0 included, the default otherwise.
C5_WaitForElement ==
    call.method = "waitForElement" =>
        /\ Passed =>
              /\ call.selector \in visible
              /\ result.value = [kind |-> "Locator", selector |-> call.selector,
                                 texts |-> << >>]
        /\ Failed =>
              /\ result.error[1].kind = "ElementNotVisible"
              /\ result.error[1].selector = call.selector
              /\ result.error[1].timeout = TimeoutInForce(call.timeout)

\* C6: a failed clickElement or fillField call ends in one ActionFailure
\* tagged with its action and selector, whose cause is the failure that
\* happened: the ElementNotVisible of the wait, or the driver's rejection.
C6_ActionFailure ==
    (Failed /\ call.method \in { "clickElement", "fillField" }) =>
        LET e == result.error
            last == trace[Len(trace)]
        IN  /\ e[1].kind = "ActionFailure"
            /\ e[1].action = (IF call.method = "clickElement" THEN "click" ELSE "fill")
            /\ e[1].selector = call.selector
            /\ Cardinality({ i \in 1..Len(e) : e[i].kind = "ActionFailure" }) = 1
            /\ e[Len(e)].kind = "DriverError" /\ e[Len(e)].action = last.op
            /\ IF IsWait(last)
               THEN Len(e) = 3 /\ e[2].kind = "ElementNotVisible"
                    /\ e[2].selector = call.selector
               ELSE Len(e) = 2

C6_Witness ==
    /\ call.method = "fillField"
    /\ Failed
    /\ Len(trace) = 1 /\ IsWait(trace[1])
    /\ result.error[1].action = "fill"

Includes(s, sub) ==
    \E i \in 0..(Len(s) - Len(sub)) : SubSeq(s, i + 1, i + Len(sub)) = sub

\* C8 as stated: assertUrlContains passes iff the URL contains the substring
\* literally, whatever characters the substring holds.
C8_LiteralSubstring ==
    (Done /\ call.method = "assertUrlContains") =>
        (Passed <=> Includes(url, call.pattern))

\* C9: getAllTextContents issues the one read and no wait, returns the texts
\* of the matching elements in DOM order, the empty sequence when none
\* matches, and fails only when the driver's read itself fails.
C9_ReadAll ==
    (Done /\ call.method = "getAllTextContents") =>
        /\ Len(trace) = 1
        /\ trace[1].op = "allTextContents" /\ trace[1].selector = call.selector
        /\ trace[1].ok =>
              /\ Passed
              /\ result.value.kind = "string[]"
              /\ result.value.texts = dom[call.selector]
        /\ Failed => ~trace[1].ok

C9_Witness ==
    /\ call.method = "getAllTextContents"
    /\ Passed
    /\ Len(result.value.texts) = 2
    /\ result.value.texts = dom[itemNameSelector]

\* C10: navigate returns nothing, and a failure of goto reaches the caller as
\* the driver's navigation error itself, which is none of ElementNotVisible,
\* ActionFailure, AssertionFailure.
C10_Navigate ==
    (Done /\ call.method = "navigate") =>
        /\ Len(trace) = 1 /\ trace[1].op = "goto"
        /\ trace[1].ok => Passed /\ result.value = BlankValue /\ url = trace[1].pattern
        /\ ~trace[1].ok =>
              /\ Failed
              /\ Len(result.error) = 1
              /\ result.error[1].kind = "DriverError"
              /\ result.error[1].action = "goto"

C10_Witness ==
    /\ call.page = "LoginPage" /\ call.method = "navigate"
    /\ Failed

-----------------------------------------------------------------------------
\* The driver operations that poll for a condition and take a { timeout }.
IsPoll(e) == e.op \in { "toBeVisible", "toHaveText", "toHaveURL" }

WaitBased ==
    { "waitForElement", "clickElement", "fillField", "assertElementText",
      "assertUrlContains" }

\* C11 as stated: every wait-based primitive (waitFor, click, fill, assertText,
\* assertUrlContains) accepts a timeout override, so every poll made by a call
\* that passes one runs with that timeout.
C11_TimeoutOverride ==
    (call.page = "BasePage" /\ call.method \in WaitBased /\ call.timeout # Undefined)
        => \A i \in 1..Len(trace) : IsPoll(trace[i]) => trace[i].timeout = call.timeout

C11_PollTimeouts ==
    (call.page = "BasePage" /\ call.method \in WaitBased)
        => \A i \in 1..Len(trace) :
             IsPoll(trace[i]) =>
                trace[i].timeout =
                    IF call.method \in { "waitForElement", "assertElementText" }
                    THEN call.timeout ELSE Undefined

C11_Expiry ==
    (Done /\ \E i \in 1..Len(trace) : ~trace[i].ok) => Failed

\* C11, amended: waitForElement and assertElementText take an optional timeout
\* and poll with it; clickElement, fillField and assertUrlContains take none and
\* poll with the driver's default.  Every call of a primitive ends, and ends in
\* a failure when a poll ran out without seeing its condition.
C11_BoundedWait ==
    /\ [](C11_PollTimeouts /\ C11_Expiry)
    /\ ((pc > 0) ~> (pc = 0))

\* a wait with an explicit timeout ran out and the call failed
C11_Witness ==
    /\ Failed
    /\ call.method = "waitForElement"
    /\ call.timeout = ExtendedTimeout
    /\ Len(trace) = 1
    /\ trace[1].timeout = ExtendedTimeout
    /\ ~trace[1].ok

-----------------------------------------------------------------------------
\* The assert* methods of the page objects.
AssertMethods ==
    { "assertLoginPage", "assertLoginSuccess", "assertLoginError",
      "assertInventoryPage", "assertItemInSearchResults",
      "assertItemNotInSearchResults", "assertCartPage", "assertCartItemCount",
      "assertItemAdded", "assertCartIsEmpty", "assertItemRemoved",
      "assertCheckoutPage", "assertOverviewPage", "assertOrderConfirmation",
      "assertErrorMessage", "assertOrderSummary" }

\* the assertions that go to the cart before they look
ViaCart == { "assertItemAdded", "assertItemRemoved" }

NoActionIssued == \A i \in 1..Len(trace) : trace[i].op \notin { "click", "fill", "goto" }

\* C12 as stated: a passing assert* call, assertItemAdded and assertItemRemoved
\* included, issues no click, fill or navigation and leaves the browser (screen,
\* URL, cart, form contents) as it found it.
C12_PassingAssertionNoEffect ==
    (Passed /\ call.method \in AssertMethods) => (NoActionIssued /\ Snapshot = before)

\* C12, amended: every passing assert* call other than CartPage.assertItemAdded
\* and assertItemRemoved issues no click, fill or navigation and leaves the
\* browser as it found it; those two first click the cart link, issue nothing
\* else that acts, and when they pass the browser shows the cart screen with
\* the cart contents unchanged.
C12_AssertionEffect ==
    /\ (Passed /\ call.method \in AssertMethods \ ViaCart)
          => (NoActionIssued /\ Snapshot = before)
    /\ (pc = 0 /\ call.method \in ViaCart /\ Len(trace) >= 2)
          => /\ trace[2].op = "click" /\ trace[2].selector = cartLinkSelector
             /\ \A i \in 3..Len(trace) : trace[i].op \notin { "click", "fill", "goto" }
    /\ (Passed /\ call.method \in ViaCart)
          => (url = CartUrl /\ storage = before.storage)

\* assertItemAdded passed for a test that was on the catalog, now on the cart
C12_Witness ==
    /\ Passed
    /\ call.method = "assertItemAdded"
    /\ before.url = InventoryUrl
    /\ url = CartUrl

-----------------------------------------------------------------------------
Authenticated == storage.user # ""

\* a finished call of method m
Finished(m) == pc = 0 /\ call.method = m /\ result.status # "none"

\* a finished login that started Unauthenticated on the login screen
LoginReturned ==
    /\ Finished("login")
    /\ before.url = RootUrl
    /\ before.storage.user = ""

C14_States ==
    /\ (LoginReturned /\ << call.a, call.b >> \in ValidUsers)
          => /\ Passed
             /\ Authenticated /\ storage.user = call.a
             /\ url = InventoryUrl
    /\ (LoginReturned /\ << call.a, call.b >> \notin ValidUsers)
          => /\ Passed
             /\ ~Authenticated
             /\ url = RootUrl
             /\ Len(dom[LoginPage_errorMessageSelector]) = 1
    /\ (Finished("assertLoginSuccess") /\ before.url = InventoryUrl) => Passed
    /\ (Finished("assertLoginSuccess") /\ before.url = RootUrl) => Failed

C14_Steps ==
    /\ (~Authenticated /\ Authenticated')
          => /\ call.method = "login" /\ << call.a, call.b >> \in ValidUsers
             /\ url = RootUrl /\ url' = InventoryUrl

\* C14: a login that starts Unauthenticated on the login screen completes
\* without failure; with a valid pair it ends Authenticated on the catalog,
\* where assertLoginSuccess passes; with any other pair it ends
\* Unauthenticated on the login screen with one error shown, where
\* assertLoginSuccess fails; and the session becomes Authenticated by no
\* other step than the submit click of a login with a valid pair.
C14_LoginStateMachine == []C14_States /\ [][C14_Steps]_vars

\* standard_user has logged in from the login screen
C14_Witness ==
    /\ LoginReturned
    /\ Passed
    /\ call.a = StandardUser
    /\ url = InventoryUrl

-----------------------------------------------------------------------------
\* the error elements the login screen shows
LoginErrors == dom[LoginPage_errorMessageSelector]

\* C15: after a login from the login screen, the error shown is exactly
\* UsernameRequired when the username is empty, PasswordRequired when only the
\* password is empty, and NoMatch when the pair is non-empty and matches no
\* user; and assertLoginError(message) passes exactly when the one error shown
\* reads message, so that with any other message it fails.
C15_LoginErrorMessages ==
    /\ (LoginReturned /\ call.a = "") => LoginErrors = << UsernameRequired >>
    /\ (LoginReturned /\ call.a # "" /\ call.b = "")
          => LoginErrors = << PasswordRequired >>
    /\ (LoginReturned /\ call.a # "" /\ call.b # ""
             /\ call.a \notin { StandardUser, ProblemUser, PerformanceGlitchUser,
                                LockedOutUser })
          => LoginErrors = << NoMatch >>
    /\ Finished("assertLoginError")
          => /\ Passed <=> before.dom[LoginPage_errorMessageSelector] = << call.text >>
             /\ Failed <=> ~Passed

\* assertLoginError passed on the message for a missing password
C15_Witness ==
    /\ Finished("assertLoginError")
    /\ Passed
    /\ call.text = PasswordRequired
    /\ field[usernameSelector] = StandardUser
    /\ field[passwordSelector] = ""

-----------------------------------------------------------------------------
\* the screens of the checkout
InfoForm == CheckoutStepOneUrl
Overview == CheckoutStepTwoUrl
Confirmation == CheckoutCompleteUrl

\* a finished fillCheckoutInfo that started on the information form
FillReturned == Finished("fillCheckoutInfo") /\ before.url = InfoForm

AllFilled == call.a # "" /\ call.b # "" /\ call.c # ""

CheckoutErrors == dom[CheckoutPage_errorMessageSelector]

C16_States ==
    /\ (FillReturned /\ AllFilled) => (Passed /\ url = Overview)
    /\ (FillReturned /\ ~AllFilled)
          => (Passed /\ url = InfoForm /\ Len(CheckoutErrors) = 1)
    /\ Finished("assertOverviewPage") => (Passed <=> before.url = Overview)
    /\ (Finished("finishCheckout") /\ before.url = Overview)
          => (Passed /\ url = Confirmation)
    /\ Finished("assertOrderConfirmation") => (Passed <=> before.url = Confirmation)

C16_Steps ==
    /\ (url # Confirmation /\ url' = Confirmation)
          => (url = Overview /\ call.method = "finishCheckout")
    /\ (url # Overview /\ url' = Overview)
          => /\ url = InfoForm
             /\ call.method = "fillCheckoutInfo" /\ AllFilled
             /\ \A s \in { firstNameSelector, lastNameSelector, zipCodeSelector } :
                   field[s] # ""

\* C16: fillCheckoutInfo on the information form with three non-empty fields
\* ends on the overview, where assertOverviewPage passes, and with an empty
\* field it stays on the form with one error shown; finishCheckout on the
\* overview ends on the confirmation, where assertOrderConfirmation passes;
\* the confirmation is entered from the overview only, and the overview from
\* the form only, with no field empty.
C16_CheckoutStateMachine == []C16_States /\ [][C16_Steps]_vars

\* the order was finished from the overview
C16_Witness ==
    /\ Finished("finishCheckout")
    /\ Passed
    /\ before.url = Overview
    /\ url = Confirmation

\* C17: after fillCheckoutInfo on the information form with at least one field
\* empty, the one error shown is the one for the first empty field in the order
\* first name, last name, postal code, for every combination of empty and
\* non-empty fields; assertErrorMessage(message) passes exactly on that text.
C17_ValidationPrecedence ==
    /\ (FillReturned /\ call.a = "") => CheckoutErrors = << FirstNameRequired >>
    /\ (FillReturned /\ call.a # "" /\ call.b = "")
          => CheckoutErrors = << LastNameRequired >>
    /\ (FillReturned /\ call.a # "" /\ call.b # "" /\ call.c = "")
          => CheckoutErrors = << PostalCodeRequired >>
    /\ Finished("assertErrorMessage")
          => (Passed <=> before.dom[CheckoutPage_errorMessageSelector] = << call.text >>)

\* every field was left empty and the first name is the one asked for
C17_Witness ==
    /\ FillReturned
    /\ call.a = "" /\ call.b = "" /\ call.c = ""
    /\ CheckoutErrors = << FirstNameRequired >>

-----------------------------------------------------------------------------
Cart == storage.cart
CartBefore == before.storage.cart

\* a finished addItemToCart, called on the catalog for an item not in the cart
AddReturned ==
    /\ Finished("addItemToCart")
    /\ before.url = InventoryUrl
    /\ ~InCart(call.itemName, before.storage)

\* the number the badge shows; the header shows no badge for an empty cart
BadgeCount == IF Cart = << >> THEN << >> ELSE << ToString(Len(Cart)) >>

\* C18: addItemToCart on the catalog, for an item not yet in the cart, passes
\* and adds exactly that item; with N >= 1 items in the cart
\* assertCartItemCount(N) passes and assertCartItemCount(M) fails for every
\* other M; a removeItem that passes takes one item off; assertCartIsEmpty
\* passes once the cart is empty; and in every state behind the login the
\* badge shows the number of distinct items added and not removed.
C18_CartCounting ==
    /\ AddReturned => (Passed /\ Cart = Append(CartBefore, call.itemName))
    /\ (Finished("assertCartItemCount") /\ before.url \in LoggedInUrls
           /\ CartBefore # << >>)
          => (Passed <=> call.count = Len(CartBefore))
    /\ (Finished("assertCartItemCount") /\ Passed) => call.count = Len(Cart)
    /\ (Finished("removeItem") /\ Passed) => Len(Cart) = Len(CartBefore) - 1
    /\ (Finished("assertCartIsEmpty") /\ CartBefore = << >>) => Passed
    /\ (Finished("assertCartIsEmpty") /\ before.url = CartUrl /\ CartBefore # << >>)
          => Failed
    /\ url \in LoggedInUrls => dom[cartBadgeSelector] = BadgeCount
    /\ \A i, j \in 1..Len(Cart) : Cart[i] = Cart[j] => i = j

\* both items were added and the count of two was asserted
C18_Witness ==
    /\ Finished("assertCartItemCount")
    /\ Passed
    /\ call.count = 2
    /\ Cart = << Backpack, BikeLight >>

-----------------------------------------------------------------------------
\* a finished removeItem, called for an item that was in the cart
RemoveReturned == Finished("removeItem") /\ InCart(call.itemName, before.storage)

\* the remove control of the item still shows
ControlShown == dom[RemoveButtonSelector(call.itemName)] # << >>

\* C19: removeItem for an item in the cart passes only in a state where the
\* item's remove control is gone and the cart is the previous cart without
\* exactly that item, every other item still in it and in the same order;
\* when the control still shows after the click, removeItem fails.
C19_RemoveItem ==
    /\ (RemoveReturned /\ Passed)
          => /\ ~ControlShown
             /\ Cart = Without(CartBefore, call.itemName)
             /\ Len(Cart) = Len(CartBefore) - 1
    /\ (RemoveReturned /\ ControlShown) => Failed

\* the backpack was removed from a cart of two and the bike light stayed
C19_Witness ==
    /\ RemoveReturned
    /\ Passed
    /\ call.itemName = Backpack
    /\ CartBefore = << Backpack, BikeLight >>
    /\ Cart = << BikeLight >>

-----------------------------------------------------------------------------
\* the last step of the round trip has passed on the confirmation screen
RoundTripDone ==
    /\ ncalls = Len(RoundTrip)
    /\ Passed
    /\ url = Confirmation
    /\ dom[completeHeaderSelector] = << ThankYou >>

\* C20: in the round trip (log in, addItemToCart of the backpack, goToCart,
\* proceedToCheckout, fillCheckoutInfo of John, Doe, 12345, assertOrderSummary
\* of the backpack at $29.99 and quantity 1, finishCheckout,
\* assertOrderConfirmation) no step fails, the catalog is reached logged in
\* with an empty cart, and the run ends with the last step passed and the
\* header 'Thank you for your order!' shown.
C20_RoundTrip ==
    /\ [](pc = 0 => result.status # "failed")
    /\ []((ncalls = 3 /\ Passed)
             => (url = InventoryUrl /\ Authenticated /\ Cart = << >>))
    /\ <>[]RoundTripDone

\* the confirmation header after the whole round trip
C20_Witness == RoundTripDone /\ text[completeHeaderSelector] = ThankYou

-----------------------------------------------------------------------------
RECURSIVE Flatten(_)
Flatten(chunks) ==
    IF chunks = << >> THEN << >> ELSE Head(chunks) \o Flatten(Tail(chunks))

\* the returned chunks partition the input
Partitions ==
    /\ Flatten(chunk.result) = chunk.array
    /\ \A k \in 1..Len(chunk.result) :
         /\ Len(chunk.result[k]) <= chunk.size
         /\ k < Len(chunk.result) => Len(chunk.result[k]) = chunk.size

\* C30: chunkArray(array, size) returns for every array and every integer
\* size, and what it returns partitions the array: the chunks concatenated in
\* order are the array, no chunk is longer than size and every chunk but the
\* last has exactly size elements.
C30_ChunkArray ==
    /\ <>(chunk.status = "returned")
    /\ [](chunk.status = "returned" => Partitions)

-----------------------------------------------------------------------------
\* every invocation of func so far came wait after the most recent call, with
\* that call's arguments, and no call was answered twice
InvokedAfterWait ==
    \A k \in 1..Len(debounced.invoked) :
       LET inv == debounced.invoked[k]
       IN  /\ inv.after >= 1
           /\ inv.at >= debounced.calls[inv.after].at + debounced.wait
           /\ inv.args = debounced.calls[inv.after].args
           /\ \A j \in 1..Len(debounced.invoked) :
                 debounced.invoked[j].after = inv.after => j = k

\* a call followed by another less than wait later is never answered
BurstsCollapse ==
    \A j \in 1..(Len(debounced.calls) - 1) :
       debounced.calls[j + 1].at - debounced.calls[j].at < debounced.wait
          => \A k \in 1..Len(debounced.invoked) : debounced.invoked[k].after # j

\* the last call has been answered and no timer is left
Settled ==
    /\ debounced.timers = { }
    /\ debounced.calls # << >>
          => /\ debounced.invoked # << >>
             /\ debounced.invoked[Len(debounced.invoked)].after = Len(debounced.calls)

\* C29: func is invoked only once wait has passed since the most recent call
\* of the returned function, with that call's arguments and at most once for
\* it; a call followed within less than wait by another is never answered, so
\* a burst ends in exactly one invocation, for its last call; and a call of
\* the returned function never invokes func itself.
C29_Debounce ==
    /\ [](InvokedAfterWait /\ BurstsCollapse)
    /\ [][debounced'.calls # debounced.calls
             => debounced'.invoked = debounced.invoked]_vars
    /\ <>[]Settled

\* a burst of two calls with different arguments, answered once
C29_Witness ==
    /\ Len(debounced.calls) = 2
    /\ debounced.calls[2].at - debounced.calls[1].at < debounced.wait
    /\ debounced.calls[1].args # debounced.calls[2].args
    /\ Len(debounced.invoked) = 1
    /\ debounced.invoked[1].args = debounced.calls[2].args

-----------------------------------------------------------------------------
\* the methods the sources give in both variants
InBothVariants == { "login", "fillCheckoutInfo", "finishCheckout" }

IsSimple == call.page \in { "Simple_LoginPage", "Simple_CheckoutPage" }

\* the call as made on the simple and on the defensive variant of its page
PageOf == IF call.method = "login" THEN "LoginPage" ELSE "CheckoutPage"
SimpleProgram == Program([call EXCEPT !.page = "Simple_" \o PageOf])
DefensiveProgram == Program([call EXCEPT !.page = PageOf])

\* driver operations as (operation, selector, value)
Operations(steps) ==
    [i \in 1..Len(steps) |-> << steps[i].op, steps[i].selector, steps[i].value >>]

-----------------------------------------------------------------------------
\* the title assertCheckoutPage / assertOverviewPage expects
ExpectedTitle ==
    IF call.method = "assertCheckoutPage" THEN CheckoutYourInformation
    ELSE CheckoutOverview

TitleShown == titleSelector \in visible /\ text[titleSelector] = ExpectedTitle

\* C28: the outcome of assertCheckoutPage and assertOverviewPage is decided by
\* the title alone: the call passes whenever the title shows the expected
\* text, also when the address changes between page.url() and the check of
\* the address.
C28_TitleDecides ==
    (Done /\ call.method \in { "assertCheckoutPage", "assertOverviewPage" }
          /\ TitleShown)
       => Passed

-----------------------------------------------------------------------------
PollDone == poll.status \in { "passed", "failed" }

\* the badge, absent until the count updates
BadgePoll == poll.call.method = "assertCartItemCount" /\ poll.appears

-----------------------------------------------------------------------------
\* the amount a price on screen stands for: the text without its first '$',
\* read as a decimal number
Amount(chars) == ParseFloat(ReplaceDollar(chars))

\* the listing and the expected list have the same length and agree at every
\* position on the name and on the description (on the name and on the price)
ListsAgree ==
    LET names == dom[itemNameSelector]
        descriptions == dom[itemDescriptionSelector]
        prices == dom[itemPriceSelector]
        expected == call.items
    IN  /\ Len(names) = Len(expected)
        /\ \A i \in 1..Len(expected) :
             /\ names[i] = expected[i].name
             /\ IF call.method = "verifyItemDescriptions"
                THEN descriptions[i] = expected[i].description
                ELSE Amount(prices[i]) = Number(expected[i].price)

ReadsSucceeded == Len(trace) = 2 /\ trace[1].ok /\ trace[2].ok

\* C22: verifyItemDescriptions and verifyItemPrices pass exactly when the two
\* reads succeed and the listing agrees with the expected list in length and at
\* every position; a shorter, longer, reordered or differing listing fails.
C22_ListsCompared ==
    (Done /\ call.method \in { "verifyItemDescriptions", "verifyItemPrices" })
       => (Passed <=> (ReadsSucceeded /\ ListsAgree))

\* verifyItemPrices has passed on a listing of two items
C22_Witness ==
    /\ call.method = "verifyItemPrices"
    /\ Passed
    /\ Len(call.items) = 2
    /\ call.items[1] # call.items[2]

-----------------------------------------------------------------------------
AbsencePoll == poll.call.method = "assertItemNotInSearchResults"

\* C23: assertItemNotInSearchResults passes at the first check at which no
\* matching element is visible, at once when there is none from the start, and
\* without waiting for the timeout to end; it fails only when a matching
\* element was visible at every check until the timeout ended.
C23_AbsenceCheck ==
    AbsencePoll =>
       /\ poll.status = "passed" =>
             /\ ~Present(poll.now)
             /\ \A t \in Instants : t < poll.now => Present(t)
             /\ ~Present(0) => poll.now = 0
       /\ poll.status = "failed" =>
             /\ poll.now >= Window(poll.call, poll.default)
             /\ \A t \in Instants : t <= poll.now => Present(t)
       /\ poll.status = "polling" => \A t \in Instants : t < poll.now => Present(t)

\* the matching element left the results after the search and the check
\* passed then, before its timeout
C23_Witness ==
    /\ AbsencePoll
    /\ ~poll.appears
    /\ poll.status = "passed"
    /\ 0 < poll.now /\ poll.now < Window(poll.call, poll.default)

-----------------------------------------------------------------------------
\* the listing, not a detail view, was on screen when the call was made
OnListing == before.storage.item = << >>

\* C21: selectProductSortOption passes for the four sort options and fails for
\* every other value with an InvalidOption error, the listing left as it was.
C21_InvalidOption ==
    (Finished("selectProductSortOption") /\ OnListing) =>
       IF call.text \in SortOptions THEN Passed
       ELSE /\ Failed
            /\ result.error[1].kind = "InvalidOption"
            /\ dom[itemNameSelector] = before.dom[itemNameSelector]

-----------------------------------------------------------------------------
\* the items whose names the listing shows, and the price a price text stands for
ShownItems(d) ==
    { i \in CatalogSet :
        \E k \in 1..Len(d[itemNameSelector]) : d[itemNameSelector][k] = NameText(i) }

PriceOf(priceText) ==
    CHOOSE p \in { CatalogPrice(i) : i \in CatalogSet } : FormatPrice(p) = priceText

\* the same items, none added, dropped or repeated
SameItems(d, e) ==
    /\ Len(d[itemNameSelector]) = Len(e[itemNameSelector])
    /\ ShownItems(d) = ShownItems(e)
    /\ Cardinality(ShownItems(d)) = Len(d[itemNameSelector])

\* C25: a sort that passes leaves the same items on screen; under 'Price (low
\* to high)' the prices read in DOM order never decrease and
\* verifyFirstItemPrice passes exactly for the lowest price shown; under
\* 'Name (A to Z)' verifyFirstItemInList passes exactly for the alphabetically
\* first name shown.
C25_SortReorders ==
    /\ (Finished("selectProductSortOption") /\ Passed)
          => (SameItems(dom, before.dom) /\ dom[sortDropdownSelector] = << call.text >>)
    /\ dom[sortDropdownSelector] = << PriceLowToHigh >>
          => \A k \in 1..(Len(dom[itemPriceSelector]) - 1) :
                PriceOf(dom[itemPriceSelector][k]) <= PriceOf(dom[itemPriceSelector][k + 1])
    /\ (Finished("verifyFirstItemPrice") /\ dom[sortDropdownSelector] = << PriceLowToHigh >>
          /\ ShownItems(dom) # { })
          => (Passed <=> /\ \E i \in ShownItems(dom) : call.price = CatalogPrice(i)
                         /\ \A i \in ShownItems(dom) : call.price <= CatalogPrice(i))
    /\ (Finished("verifyFirstItemInList") /\ dom[sortDropdownSelector] = << NameAtoZ >>
          /\ ShownItems(dom) # { })
          => (Passed <=> /\ call.itemName \in ShownItems(dom)
                         /\ \A i \in ShownItems(dom) : Rank(call.itemName) <= Rank(i))

\* the whole catalog sorted by price, and verifyFirstItemPrice has passed for
\* the lowest price
C25_Witness ==
    /\ Finished("verifyFirstItemPrice")
    /\ Passed
    /\ dom[sortDropdownSelector] = << PriceLowToHigh >>
    /\ Len(dom[itemNameSelector]) = Len(CatalogItems)
    /\ call.price = BikeLightPrice

-----------------------------------------------------------------------------
\* C26: clickOnInventoryItem opens the detail view of the named item from
\* whatever view the listing is in, verifyItemDetails passes there for that
\* item's values, and backToProducts ends on the listing, where
\* assertInventoryPage passes, with every item shown in the default order.
C26_DetailRoundTrip ==
    /\ (Finished("clickOnInventoryItem") /\ Passed)
          => /\ OnListing
             /\ call.itemName \in ShownItems(before.dom)
             /\ dom[itemDetailsNameSelector] = << NameText(call.itemName) >>
    /\ (Finished("verifyItemDetails") /\ dom[itemDetailsNameSelector] # << >>)
          => (Passed <=> dom[itemDetailsNameSelector] = << NameText(call.itemName) >>)
    /\ (Finished("backToProducts") /\ Passed)
          => /\ ~OnListing
             /\ dom[titleSelector] = << Products >>
             /\ dom[itemNameSelector] = Map(CatalogItems, NameText)
             /\ dom[sortDropdownSelector] = << NameAtoZ >>
    /\ Finished("assertInventoryPage")
          => (Passed <=> dom[sortDropdownSelector] # << >>)

\* backToProducts has passed from a detail view opened on a sorted, filtered
\* listing
C26_Witness ==
    /\ Finished("backToProducts")
    /\ Passed
    /\ before.storage.sort = PriceHighToLow
    /\ before.storage.query # << >>

====
